---------------------------- MODULE Spec2Model ----------------------------
(***************************************************************************)
(* Forest fire detection API (forest_fire_api): the request handler        *)
(* ai_enhanced_fire_detect, image intake (prepare_image), the scratch      *)
(* directory registry (managed_temp_dir) and the DashScope client          *)
(* (analyze_image, _mock_response, _extract_summary, _extract_confidence,  *)
(* _infer_fire_detection).                                                 *)
(*                                                                         *)
(* Conventions.                                                            *)
(*  - Python's None is the empty tuple <<>>; an Optional value v that is   *)
(*    present is the 1-tuple <<v>>.                                        *)
(*  - A float in [0,1] (probability, confidence) is an integer number of   *)
(*    1/100000 units: 0.5 is 50000, 1.0 is ONE.  Numbers read from text    *)
(*    use the same unit.                                                   *)
(*  - Text is a TLA+ string; substring search, lowercasing, stripping and  *)
(*    the confidence regular expression are computed character by          *)
(*    character.                                                           *)
(***************************************************************************)
EXTENDS Integers, Sequences, FiniteSets, TLC

None == <<>>
Some(v) == <<v>>

\* 1.0 in fixed-point units (not a bound: the unit of every float below).
ONE == 1000 * 100
\* The literal 0.5 that every verdict compares against.
HALF == ONE \div 2

Min(a, b) == IF a <= b THEN a ELSE b
Max(a, b) == IF a >= b THEN a ELSE b

----------------------------------------------------------------------------
(* Strings *)

CharAt(s, i) == IF i >= 1 /\ i <= Len(s) THEN SubSeq(s, i, i) ELSE ""

\* str.lower() on ASCII letters.
LowerChar(c) ==
    CASE c = "A" -> "a" [] c = "B" -> "b" [] c = "C" -> "c" [] c = "D" -> "d"
      [] c = "E" -> "e" [] c = "F" -> "f" [] c = "G" -> "g" [] c = "H" -> "h"
      [] c = "I" -> "i" [] c = "J" -> "j" [] c = "K" -> "k" [] c = "L" -> "l"
      [] c = "M" -> "m" [] c = "N" -> "n" [] c = "O" -> "o" [] c = "P" -> "p"
      [] c = "Q" -> "q" [] c = "R" -> "r" [] c = "S" -> "s" [] c = "T" -> "t"
      [] c = "U" -> "u" [] c = "V" -> "v" [] c = "W" -> "w" [] c = "X" -> "x"
      [] c = "Y" -> "y" [] c = "Z" -> "z"
      [] OTHER -> c

RECURSIVE lower(_)
lower(s) ==
    IF s = "" THEN ""
    ELSE LowerChar(SubSeq(s, 1, 1)) \o lower(SubSeq(s, 2, Len(s)))

\* Python's `tok in text`.
Contains(text, tok) ==
    \E i \in 1..(Len(text) + 1 - Len(tok)) : SubSeq(text, i, i + Len(tok) - 1) = tok

IsSpace(c) == c \in {" ", "\n", "\t", "\r"}
IsDigit(c) == c \in {"0", "1", "2", "3", "4", "5", "6", "7", "8", "9"}

RECURSIVE lstrip(_)
lstrip(s) ==
    IF s # "" /\ IsSpace(SubSeq(s, 1, 1)) THEN lstrip(SubSeq(s, 2, Len(s))) ELSE s

RECURSIVE rstrip(_)
rstrip(s) ==
    IF s # "" /\ IsSpace(SubSeq(s, Len(s), Len(s)))
    THEN rstrip(SubSeq(s, 1, Len(s) - 1)) ELSE s

\* str.strip()
strip(s) == rstrip(lstrip(s))

DigitVal(c) ==
    CASE c = "0" -> 0 [] c = "1" -> 1 [] c = "2" -> 2 [] c = "3" -> 3 [] c = "4" -> 4
      [] c = "5" -> 5 [] c = "6" -> 6 [] c = "7" -> 7 [] c = "8" -> 8 [] c = "9" -> 9
      [] OTHER -> 0

DigitChar(d) ==
    CASE d = 0 -> "0" [] d = 1 -> "1" [] d = 2 -> "2" [] d = 3 -> "3" [] d = 4 -> "4"
      [] d = 5 -> "5" [] d = 6 -> "6" [] d = 7 -> "7" [] d = 8 -> "8" [] d = 9 -> "9"

\* str(n) for a natural number n.
RECURSIVE NatStr(_)
NatStr(n) == IF n < 10 THEN DigitChar(n) ELSE NatStr(n \div 10) \o DigitChar(n % 10)

\* "{0:.1f}".format(p * 100) for a probability p in fixed-point units: the
\* percentage rounded to one decimal (tenths of a percent are units of 100).
\* The inputs enumerated below never sit exactly on a rounding tie.
FormatPercent1(p) ==
    LET tenths == (p + 50) \div 100
    IN  NatStr(tenths \div 10) \o "." \o DigitChar(tenths % 10)

----------------------------------------------------------------------------
(* JSON values as the response's json() returns them: a tag t and, under a *)
(* field named after the type, the value.                                   *)

JNull == [t |-> "null"]
JStr(s) == [t |-> "str", str |-> s]
JNum(n) == [t |-> "num", num |-> n]
JList(items) == [t |-> "list", items |-> items]
JObj(fields) == [t |-> "dict", fields |-> fields]

\* Python truthiness of a JSON value.
Truthy(j) ==
    CASE j.t = "null" -> FALSE
      [] j.t = "str" -> j.str # ""
      [] j.t = "num" -> j.num # 0
      [] j.t = "list" -> j.items # <<>>
      [] j.t = "dict" -> DOMAIN j.fields # {}

\* dict.get(key, default)
Get(d, key, default) == IF key \in DOMAIN d.fields THEN d.fields[key] ELSE default

\* str(value).  The repr of a non-empty nested container is rendered coarsely:
\* no enumerated payload depends on its inner text.
PyStr(j) ==
    CASE j.t = "null" -> "None"
      [] j.t = "str" -> j.str
      [] j.t = "num" -> NatStr(j.num)
      [] j.t = "list" -> IF j.items = <<>> THEN "[]" ELSE "[...]"
      [] j.t = "dict" -> IF DOMAIN j.fields = {} THEN "{}" ELSE "{...}"

\* "\n".join(filter(None, strings))
RECURSIVE JoinNonEmpty(_)
JoinNonEmpty(strings) ==
    IF strings = <<>> THEN ""
    ELSE IF Head(strings) = "" THEN JoinNonEmpty(Tail(strings))
    ELSE IF JoinNonEmpty(Tail(strings)) = "" THEN Head(strings)
    ELSE Head(strings) \o "\n" \o JoinNonEmpty(Tail(strings))

\* isinstance(block, dict) and block.get("type") == "text"
IsTextBlock(block) ==
    /\ block.t = "dict"
    /\ Get(block, "type", JNull).t = "str"
    /\ Get(block, "type", JNull).str = "text"

\* block.get("text", "") of the text blocks, "" at the other positions.
BlockTexts(content) ==
    [i \in 1..Len(content) |->
        IF IsTextBlock(content[i]) THEN Get(content[i], "text", JStr("")) ELSE JStr("")]

\* str(block) of the entries that are no dict, "" at the other positions.
NonDictStrings(content) ==
    [i \in 1..Len(content) |->
        IF content[i].t # "dict" THEN PyStr(content[i]) ELSE ""]

StrippedTexts(texts) == [i \in 1..Len(texts) |-> strip(texts[i].str)]

\* The branch of _extract_summary for a content that is a list of blocks.
SummaryFromBlocks(content) ==
    IF \E i \in 1..Len(content) : BlockTexts(content)[i].t # "str"
    THEN ""                           \* str.strip raises TypeError: caught, ""
    ELSE IF JoinNonEmpty(StrippedTexts(BlockTexts(content))) # ""
    THEN JoinNonEmpty(StrippedTexts(BlockTexts(content)))
    ELSE strip(JoinNonEmpty(NonDictStrings(content)))

\* SummaryFromContent without the `if content:` test before str(content).
SummaryFromContentUnguarded(content) ==
    CASE content.t = "str" -> strip(content.str)
      [] content.t = "list" -> SummaryFromBlocks(content.items)
      [] OTHER -> PyStr(content)

SummaryFromContent(content) ==
    CASE content.t = "str" -> strip(content.str)
      [] content.t = "list" -> SummaryFromBlocks(content.items)
      [] OTHER -> IF Truthy(content) THEN PyStr(content) ELSE ""

SummaryFromMessage(message) ==
    IF message.t # "dict" THEN ""     \* message.get raises AttributeError
    ELSE SummaryFromContent(Get(message, "content", JNull))

SummaryFromChoice(first_choice) ==
    IF first_choice.t # "dict" THEN ""
    ELSE SummaryFromMessage(Get(first_choice, "message", JObj(<<>>)))

SummaryFromChoices(choices) ==
    IF ~Truthy(choices) THEN ""
    ELSE IF choices.t # "list" THEN ""   \* choices[0], or .get on it, raises
    ELSE SummaryFromChoice(choices.items[1])

\* DashScopeClient._extract_summary: every exception inside is caught and
\* gives "".
_extract_summary(payload) ==
    IF payload.t # "dict" THEN ""     \* payload.get raises AttributeError
    ELSE SummaryFromChoices(Get(payload, "choices", JNull))

----------------------------------------------------------------------------
(* _extract_confidence: the regular expression                              *)
(*   (confidence|probability|likelihood)\s*[:=]\s*(\d+(?:\.\d+)?)%?         *)
(* searched case-insensitively, leftmost match, greedy.                     *)

ConfidenceKeywords == <<"confidence", "probability", "likelihood">>

RECURSIVE SkipSpace(_, _)
SkipSpace(s, i) == IF IsSpace(CharAt(s, i)) THEN SkipSpace(s, i + 1) ELSE i

RECURSIVE SkipDigits(_, _)
SkipDigits(s, i) == IF IsDigit(CharAt(s, i)) THEN SkipDigits(s, i + 1) ELSE i

RECURSIVE ParseNat(_)
ParseNat(s) ==
    IF s = "" THEN 0
    ELSE 10 * ParseNat(SubSeq(s, 1, Len(s) - 1)) + DigitVal(SubSeq(s, Len(s), Len(s)))

RECURSIVE Pow10(_)
Pow10(n) == IF n = 0 THEN 1 ELSE 10 * Pow10(n - 1)

\* float("<int>[.<frac>]") in fixed-point units (fractions of up to five digits
\* are exact; longer ones are cut to five).
ParseFloat(intPart, fracPart) ==
    LET f == SubSeq(fracPart, 1, Min(Len(fracPart), 5))
    IN  ParseNat(intPart) * ONE + ParseNat(f) * Pow10(5 - Len(f))

\* The match of the pattern starting exactly at position i of s (low is s
\* lowercased: the search ignores case), or None.
MatchAt(s, low, i) ==
    LET kws == {k \in 1..Len(ConfidenceKeywords) :
                   /\ i + Len(ConfidenceKeywords[k]) - 1 <= Len(low)
                   /\ SubSeq(low, i, i + Len(ConfidenceKeywords[k]) - 1) = ConfidenceKeywords[k]}
    IN  IF kws = {} THEN None
        ELSE LET k == CHOOSE k \in kws : TRUE
                 a == SkipSpace(s, i + Len(ConfidenceKeywords[k]))
             IN  IF CharAt(s, a) \notin {":", "="} THEN None
                 ELSE LET b == SkipSpace(s, a + 1)
                          c == SkipDigits(s, b)
                      IN  IF c = b THEN None
                          ELSE LET hasFrac == CharAt(s, c) = "." /\ IsDigit(CharAt(s, c + 1))
                                   d == IF hasFrac THEN SkipDigits(s, c + 1) ELSE c
                                   pct == CharAt(s, d) = "%"
                               IN  Some([value |-> ParseFloat(SubSeq(s, b, c - 1),
                                                       IF hasFrac THEN SubSeq(s, c + 1, d - 1) ELSE ""),
                                         percent |-> pct])

\* pattern.search(summary): the leftmost match, or None.
Search(s) ==
    LET low == lower(s)
        hits == {i \in 1..Len(s) : MatchAt(s, low, i) # None}
    IN  IF hits = {} THEN None
        ELSE MatchAt(s, low, CHOOSE i \in hits : \A j \in hits : i <= j)

\* _extract_confidence that divides every percentage by 100.
_extract_confidence_percent(summary) ==
    IF summary = "" THEN None
    ELSE LET m == Search(summary)
         IN  IF m = None THEN None
             ELSE LET value == m[1].value
                  IN  IF m[1].percent
                      THEN Some(Max(0, Min(100 * ONE, value)) \div 100)
                      ELSE Some(Max(0, Min(ONE, value)))

\* DashScopeClient._extract_confidence
_extract_confidence(summary) ==
    IF summary = "" THEN None
    ELSE LET m == Search(summary)
         IN  IF m = None THEN None
             ELSE LET value == m[1].value
                  IN  IF m[1].percent /\ value > ONE
                      THEN Some(Max(0, Min(100 * ONE, value)) \div 100)
                      ELSE Some(Max(0, Min(ONE, value)))

----------------------------------------------------------------------------
(* The call context: Optional[Dict]: None, or Some(dict), the dict a function *)
(* from its keys.                                                             *)

CtxTruthy(context) == context # None /\ DOMAIN context[1] # {}
CtxGet(context, key, default) ==
    IF key \in DOMAIN context[1] THEN context[1][key] ELSE default

\* bool(context and float(context.get("local_probability", 0.0)) >= 0.5)
LocalAtLeastHalf(context) ==
    CtxTruthy(context) /\ CtxGet(context, "local_probability", 0) >= HALF

negative_tokens ==
    << "no fire", "no visible fire", "absence of fire", "unlikely", "not detected",
       "no smoke", "no flames", "no sign of fire", "no obvious fire" >>

affirmative_tokens == << "fire", "flame", "smoke", "burn", "blaze", "ignition" >>

\* InferFromEmpty that looks at the confidence only.
InferFromEmptyNoLocal(context, confidence) ==
    (IF confidence = None THEN 0 ELSE confidence[1]) >= HALF

\* The branch of _infer_fire_detection for an empty summary.
InferFromEmpty(context, confidence) ==
    \/ (IF confidence = None THEN 0 ELSE confidence[1]) >= HALF
    \/ LocalAtLeastHalf(context)

\* HasNegative that misses the last phrase of the list.
HasNegativeShort(text) ==
    \E k \in 1..(Len(negative_tokens) - 1) : Contains(text, negative_tokens[k])

\* The scan of the negative phrases: TRUE when one occurs in the text.
HasNegative(text) ==
    \E k \in 1..Len(negative_tokens) : Contains(text, negative_tokens[k])

HasAffirmative(text) ==
    \E k \in 1..Len(affirmative_tokens) : Contains(text, affirmative_tokens[k])

\* any(f"no {token}" in text for token in affirmative_tokens)
HasNegatedAffirmative(text) ==
    \E k \in 1..Len(affirmative_tokens) : Contains(text, "no " \o affirmative_tokens[k])

\* InferFromNumbers that lets the local probability overrule a known confidence.
InferFromNumbersEither(context, confidence) ==
    \/ (confidence # None /\ confidence[1] >= HALF)
    \/ LocalAtLeastHalf(context)

\* The fall-through of _infer_fire_detection once no token decided.
InferFromNumbers(context, confidence) ==
    IF confidence # None THEN confidence[1] >= HALF
    ELSE LocalAtLeastHalf(context)

\* DashScopeClient._infer_fire_detection
_infer_fire_detection(summary, context, confidence) ==
    IF summary = "" THEN InferFromEmpty(context, confidence)
    ELSE LET text == lower(summary)
         IN  IF HasNegative(text) THEN FALSE
             ELSE IF HasAffirmative(text) THEN ~HasNegatedAffirmative(text)
             ELSE InferFromNumbers(context, confidence)

MockNote == "DashScope mock mode is enabled (no API key configured)."

\* _mock_response that needs more than one half to report fire.
_mock_response_strict(context) ==
    LET local_probability ==
            IF CtxTruthy(context) THEN CtxGet(context, "local_probability", 0) ELSE 0
        fire_detected == local_probability > HALF
    IN  [ summary |-> "[Mock] Local heuristic indicates a "
                        \o FormatPercent1(local_probability)
                        \o "% probability of visible fire or smoke. "
                        \o "No external analysis was performed.",
          fire_detected |-> fire_detected,
          confidence |-> IF fire_detected THEN Some(local_probability) ELSE None,
          raw_response |-> [ mock |-> TRUE,
                             local_probability |-> local_probability,
                             note |-> MockNote ] ]

\* DashScopeClient._mock_response
_mock_response(context) ==
    LET local_probability ==
            IF CtxTruthy(context) THEN CtxGet(context, "local_probability", 0) ELSE 0
        fire_detected == local_probability >= HALF
    IN  [ summary |-> "[Mock] Local heuristic indicates a "
                        \o FormatPercent1(local_probability)
                        \o "% probability of visible fire or smoke. "
                        \o "No external analysis was performed.",
          fire_detected |-> fire_detected,
          confidence |-> IF fire_detected THEN Some(local_probability) ELSE None,
          raw_response |-> [ mock |-> TRUE,
                             local_probability |-> local_probability,
                             note |-> MockNote ] ]

\* The user prompt of _build_messages.
UserPrompt(context) ==
    LET nameLine ==
            IF CtxTruthy(context) /\ CtxGet(context, "filename", "") # ""
            THEN "Filename: " \o CtxGet(context, "filename", "") ELSE ""
        probLine ==
            IF CtxTruthy(context) /\ "local_probability" \in DOMAIN context[1]
            THEN "Local heuristic fire probability: "
                     \o FormatPercent1(context[1]["local_probability"]) \o "%"
            ELSE ""
        lines == JoinNonEmpty(<<nameLine, probLine>>)
    IN  IF lines # "" THEN lines
        ELSE "Please analyse the attached forest scene for early signs of smoke, flame, or smouldering. "
                 \o "Summarise the risk level and key observations."

----------------------------------------------------------------------------
(* Errors (exceptions.py) and the outcome of a call: a return or a raise.  *)

ValidationError(message) ==
    [type |-> "ValidationError", message |-> message, status_code |-> 400,
     error_code |-> "invalid_request", details |-> None]

ImageProcessingError(message) ==
    [type |-> "ImageProcessingError", message |-> message, status_code |-> 422,
     error_code |-> "image_processing_error", details |-> None]

ExternalServiceError(message, details) ==
    [type |-> "ExternalServiceError", message |-> message, status_code |-> 502,
     error_code |-> "external_service_error", details |-> Some(details)]

ConfigurationError(message) ==
    [type |-> "ConfigurationError", message |-> message, status_code |-> 500,
     error_code |-> "configuration_error", details |-> None]

\* The subclasses of ForestFireAPIError.
ForestFireAPIErrors ==
    {"ValidationError", "ImageProcessingError", "ExternalServiceError", "ConfigurationError"}

\* posts: the requests handed to session.post during the call.
Return(value, posts) == [kind |-> "return", value |-> value, posts |-> posts]
Raise(error, posts) == [kind |-> "raise", error |-> error, posts |-> posts]

\* Excerpt that keeps the whole body.
ExcerptWhole(text) == text

\* response.text[:600]
BODY_EXCERPT == 600
Excerpt(text) == SubSeq(text, 1, Min(Len(text), BODY_EXCERPT))

PlaceholderSummary == "DashScope analysis completed without textual summary."

\* `not self._api_key`: None and "" are both falsy.
NoApiKey(self) == self.api_key = None \/ self.api_key[1] = ""

\* MissingCredential that never fires.
MissingCredentialNever(self) == FALSE

\* The guard that opens analyze_image.
MissingCredential(self) == NoApiKey(self) /\ ~self.force_mock

\* UseMock that looks at the key only.
UseMockNoKeyOnly(self) == NoApiKey(self)

\* The mock branch that follows it.
UseMock(self) == self.force_mock \/ NoApiKey(self)

\* The DashScopeResult analyze_image returns for a parsed reply.
ReplyResult(summary, confidence, context, payload_json) ==
    [ summary |-> IF summary # "" THEN summary ELSE PlaceholderSummary,
      fire_detected |-> _infer_fire_detection(summary, context, confidence),
      confidence |-> confidence,
      raw_response |-> payload_json ]

ReplyFromSummary(summary, context, payload_json) ==
    ReplyResult(summary, _extract_confidence(summary), context, payload_json)

\* The parsing tail of analyze_image on a decoded JSON payload.
ParseReply(payload_json, context) ==
    ReplyFromSummary(_extract_summary(payload_json), context, payload_json)

\* DashScopeClient.analyze_image.  transport is what session.post does when it
\* is called: it raises (a requests.RequestException, timeouts included, or
\* some other exception) or returns a response [status_code, text, json], json
\* being None when the body is not JSON.
analyze_image(self, image_format, request_id, context, transport) ==
    IF MissingCredential(self)
    THEN Raise(ConfigurationError(
             "DashScope API key is not configured. Set DASHSCOPE_API_KEY or enable mock mode."),
             <<>>)
    ELSE IF UseMock(self) THEN Return(_mock_response(context), <<>>)
    ELSE LET posted ==
                 << [ url |-> self.endpoint,
                      authorization |-> "Bearer " \o self.api_key[1],
                      model |-> self.model,
                      data_url |-> "data:image/"
                                      \o (IF image_format # "" THEN image_format ELSE "jpeg")
                                      \o ";base64",
                      user_prompt |-> UserPrompt(context),
                      timeout |-> self.timeout ] >>
         IN  CASE transport.kind = "RequestException" ->
                    Raise(ExternalServiceError("Failed to connect to DashScope service.",
                              [request_id |-> request_id, error |-> transport.error]),
                          posted)
               [] transport.kind = "Exception" ->
                    Raise([type |-> transport.error], posted)
               [] transport.kind = "response" ->
                    IF transport.status_code >= 400
                    THEN Raise(ExternalServiceError(
                                  "DashScope API returned HTTP "
                                      \o NatStr(transport.status_code) \o ".",
                                  [body |-> Excerpt(transport.text), request_id |-> request_id]),
                               posted)
                    ELSE IF transport.json = None
                    THEN Raise(ExternalServiceError("DashScope response parsing failed.",
                                  [body |-> Excerpt(transport.text), request_id |-> request_id]),
                               posted)
                    ELSE Return(ParseReply(transport.json[1], context), posted)

----------------------------------------------------------------------------
(* Image intake (image_processing.py) *)

UpperChar(c) ==
    CASE c = "a" -> "A" [] c = "b" -> "B" [] c = "c" -> "C" [] c = "d" -> "D"
      [] c = "e" -> "E" [] c = "f" -> "F" [] c = "g" -> "G" [] c = "h" -> "H"
      [] c = "i" -> "I" [] c = "j" -> "J" [] c = "k" -> "K" [] c = "l" -> "L"
      [] c = "m" -> "M" [] c = "n" -> "N" [] c = "o" -> "O" [] c = "p" -> "P"
      [] c = "q" -> "Q" [] c = "r" -> "R" [] c = "s" -> "S" [] c = "t" -> "T"
      [] c = "u" -> "U" [] c = "v" -> "V" [] c = "w" -> "W" [] c = "x" -> "X"
      [] c = "y" -> "Y" [] c = "z" -> "Z"
      [] OTHER -> c

RECURSIVE upper(_)
upper(s) ==
    IF s = "" THEN ""
    ELSE UpperChar(SubSeq(s, 1, 1)) \o upper(SubSeq(s, 2, Len(s)))

\* The characters werkzeug's _filename_ascii_strip_re keeps: [A-Za-z0-9_.-]
IsFilenameChar(c) ==
    \/ IsDigit(c)
    \/ c \in {"_", ".", "-"}
    \/ c \in {"a", "b", "c", "d", "e", "f", "g", "h", "i", "j", "k", "l", "m",
              "n", "o", "p", "q", "r", "s", "t", "u", "v", "w", "x", "y", "z"}
    \/ c \in {"A", "B", "C", "D", "E", "F", "G", "H", "I", "J", "K", "L", "M",
              "N", "O", "P", "Q", "R", "S", "T", "U", "V", "W", "X", "Y", "Z"}

\* filename.replace(os.sep, " ") (POSIX: "/" is the only separator)
RECURSIVE ReplaceSeparators(_)
ReplaceSeparators(s) ==
    IF s = "" THEN ""
    ELSE (IF SubSeq(s, 1, 1) = "/" THEN " " ELSE SubSeq(s, 1, 1))
             \o ReplaceSeparators(SubSeq(s, 2, Len(s)))

\* "_".join(s.split()) for s already stripped: each run of whitespace is one "_".
RECURSIVE JoinWords(_)
JoinWords(s) ==
    IF s = "" THEN ""
    ELSE IF IsSpace(SubSeq(s, 1, 1)) THEN "_" \o JoinWords(lstrip(s))
    ELSE SubSeq(s, 1, 1) \o JoinWords(SubSeq(s, 2, Len(s)))

RECURSIVE KeepFilenameChars(_)
KeepFilenameChars(s) ==
    IF s = "" THEN ""
    ELSE (IF IsFilenameChar(SubSeq(s, 1, 1)) THEN SubSeq(s, 1, 1) ELSE "")
             \o KeepFilenameChars(SubSeq(s, 2, Len(s)))

\* str.strip("._")
RECURSIVE StripDotsUnderscores(_)
StripDotsUnderscores(s) ==
    IF s # "" /\ SubSeq(s, 1, 1) \in {".", "_"}
    THEN StripDotsUnderscores(SubSeq(s, 2, Len(s)))
    ELSE IF s # "" /\ SubSeq(s, Len(s), Len(s)) \in {".", "_"}
    THEN StripDotsUnderscores(SubSeq(s, 1, Len(s) - 1))
    ELSE s

\* werkzeug.utils.secure_filename on ASCII names, on a POSIX host.
secure_filename(filename) ==
    StripDotsUnderscores(KeepFilenameChars(JoinWords(strip(ReplaceSeparators(filename)))))

\* content_type.split("/")[-1]
RECURSIVE AfterLastSlash(_)
AfterLastSlash(s) ==
    IF ~Contains(s, "/") THEN s
    ELSE AfterLastSlash(SubSeq(s, 2, Len(s)))

\* Path(filename).stem: the name without its last suffix (a name with no dot
\* after its first character, or ending in a dot, has no suffix).
RECURSIVE CutAtLastDot(_)
CutAtLastDot(s) ==
    IF SubSeq(s, Len(s), Len(s)) = "." THEN SubSeq(s, 1, Len(s) - 1)
    ELSE CutAtLastDot(SubSeq(s, 1, Len(s) - 1))

Stem(s) ==
    IF ~Contains(SubSeq(s, 2, Len(s)), ".") \/ SubSeq(s, Len(s), Len(s)) = "." THEN s
    ELSE CutAtLastDot(s)

\* The thresholds of detect_thermal: mean saturation and value deviation on
\* the 0..255 scale, the ratio of distinct colours in fixed-point units.
SATURATION_MIN == 25
VALUE_STD_MIN == 18
UNIQUE_RATIO_MIN == (8 * ONE) \div 100

\* detect_thermal.  array is the decoded pixel grid, carried as its shape and
\* the statistics the heuristics read from the (stride-sampled) grid.
detect_thermal(array) ==
    IF array.channels # 3 THEN TRUE
    ELSE \/ array.saturation_mean < SATURATION_MIN
         \/ array.value_std < VALUE_STD_MIN
         \/ array.unique_ratio < UNIQUE_RATIO_MIN

\* estimate_fire_probability: clamp(0.65 * red_ratio + 0.35 * brightness, 0, 1)
estimate_fire_probability(array) ==
    IF array.channels # 3 THEN 0
    ELSE Max(0, Min(ONE, (65 * array.red_ratio + 35 * array.brightness) \div 100))

\* prepare_image reading the stream before it looks at the declared MIME type.
prepare_image_read_first(file_storage, allowed_mime_types, max_content_length) ==
    LET declared == IF file_storage.filename = None \/ file_storage.filename[1] = ""
                    THEN "image.jpg" ELSE file_storage.filename[1]
        filename == secure_filename(declared)
        content_type == lower(file_storage.mimetype)
        raw_bytes == file_storage.stream
    IN  IF filename = ""
        THEN [kind |-> "raise", events |-> <<>>,
              error |-> ValidationError("Uploaded file must include a valid filename.")]
        ELSE IF raw_bytes = None
        THEN [kind |-> "raise", events |-> <<"read">>,
              error |-> ImageProcessingError(
                            "Failed to read uploaded image '" \o filename \o "'.")]
        ELSE IF content_type # "" /\ content_type \notin allowed_mime_types
        THEN [kind |-> "raise", events |-> <<"read">>,
              error |-> ValidationError("Unsupported file type '" \o content_type \o "'.")]
        ELSE IF raw_bytes[1].size = 0
        THEN [kind |-> "raise", events |-> <<"read">>,
              error |-> ValidationError("Uploaded image '" \o filename \o "' is empty.")]
        ELSE IF raw_bytes[1].size > max_content_length
        THEN [kind |-> "raise", events |-> <<"read">>,
              error |-> ValidationError("Uploaded image '" \o filename
                            \o "' exceeds the maximum allowed size.")]
        ELSE IF raw_bytes[1].image = None
        THEN [kind |-> "raise", events |-> <<"read", "decode">>,
              error |-> ImageProcessingError("Unable to decode image '" \o filename
                            \o "'. Please provide a valid image file.")]
        ELSE LET image == raw_bytes[1].image[1]
                 image_format ==
                     lower(IF image.format # "" THEN image.format
                           ELSE IF AfterLastSlash(content_type) # ""
                                THEN AfterLastSlash(content_type) ELSE "jpeg")
             IN  [kind |-> "return", events |-> <<"read", "decode", "classify">>,
                  value |-> [ filename |-> filename,
                              content_type |-> IF content_type # "" THEN content_type
                                               ELSE "image/" \o image_format,
                              image_format |-> image_format,
                              width |-> image.width,
                              height |-> image.height,
                              image |-> image,
                              raw_bytes |-> raw_bytes[1],
                              is_thermal |-> detect_thermal(image.array),
                              fire_probability |-> estimate_fire_probability(image.array) ]]

\* prepare_image.  file_storage is [filename, mimetype, stream]: the declared
\* name (Optional), the declared MIME ("" when none) and what reading the
\* stream gives: None when read() raises, else Some([size, image]), image
\* being None when the bytes do not decode and Some([format, width, height,
\* array]) when they do.  events lists the stages the call went through.
prepare_image(file_storage, allowed_mime_types, max_content_length) ==
    LET declared == IF file_storage.filename = None \/ file_storage.filename[1] = ""
                    THEN "image.jpg" ELSE file_storage.filename[1]
        filename == secure_filename(declared)
        content_type == lower(file_storage.mimetype)
        raw_bytes == file_storage.stream
    IN  IF filename = ""
        THEN [kind |-> "raise", events |-> <<>>,
              error |-> ValidationError("Uploaded file must include a valid filename.")]
        ELSE IF content_type # "" /\ content_type \notin allowed_mime_types
        THEN [kind |-> "raise", events |-> <<>>,
              error |-> ValidationError("Unsupported file type '" \o content_type \o "'.")]
        ELSE IF raw_bytes = None
        THEN [kind |-> "raise", events |-> <<"read">>,
              error |-> ImageProcessingError(
                            "Failed to read uploaded image '" \o filename \o "'.")]
        ELSE IF raw_bytes[1].size = 0
        THEN [kind |-> "raise", events |-> <<"read">>,
              error |-> ValidationError("Uploaded image '" \o filename \o "' is empty.")]
        ELSE IF raw_bytes[1].size > max_content_length
        THEN [kind |-> "raise", events |-> <<"read">>,
              error |-> ValidationError("Uploaded image '" \o filename
                            \o "' exceeds the maximum allowed size.")]
        ELSE IF raw_bytes[1].image = None
        THEN [kind |-> "raise", events |-> <<"read", "decode">>,
              error |-> ImageProcessingError("Unable to decode image '" \o filename
                            \o "'. Please provide a valid image file.")]
        ELSE LET image == raw_bytes[1].image[1]
                 image_format ==
                     lower(IF image.format # "" THEN image.format
                           ELSE IF AfterLastSlash(content_type) # ""
                                THEN AfterLastSlash(content_type) ELSE "jpeg")
             IN  [kind |-> "return", events |-> <<"read", "decode", "classify">>,
                  value |-> [ filename |-> filename,
                              content_type |-> IF content_type # "" THEN content_type
                                               ELSE "image/" \o image_format,
                              image_format |-> image_format,
                              width |-> image.width,
                              height |-> image.height,
                              image |-> image,
                              raw_bytes |-> raw_bytes[1],
                              is_thermal |-> detect_thermal(image.array),
                              fire_probability |-> estimate_fire_probability(image.array) ]]

BANNER_MAX == 220

\* annotate_image: a copy of the image with the banner drawn on it.
annotate_image(image, summary, fire_detected) ==
    LET stripped == strip(summary)
        safe_summary == IF stripped # "" THEN stripped ELSE "Analysis completed."
    IN  [ width |-> image.width, height |-> image.height,
          banner |-> IF Len(safe_summary) > BANNER_MAX
                     THEN SubSeq(safe_summary, 1, BANNER_MAX - 3) \o "..."
                     ELSE safe_summary,
          banner_color |-> IF fire_detected THEN "red" ELSE "blue" ]

_normalise_image_format(format_hint) ==
    LET format_upper == upper(IF format_hint # "" THEN format_hint ELSE "jpeg")
    IN  IF format_upper \in {"JPG", "JPEG"} THEN "JPEG" ELSE format_upper

\* save_annotated_image: the annotated image written under the workspace, read
\* back, encoded and unlinked again; the encoded artifact is what is kept.
save_annotated_image(image, workspace, base_filename, format_hint) ==
    [ format |-> _normalise_image_format(format_hint), image |-> image ]

\* The formats Pillow has a writer for, among those the uploads decode as
\* (it reads PSD and has no writer for it).
WritableFormats == {"JPEG", "PNG", "WEBP", "GIF"}

\* What escapes save_annotated_image: image.save(temp_path, format=...) raises
\* KeyError for a format without a writer, the except branch falls back to
\* image_to_base64, whose save raises KeyError again, and that one is not the
\* ValueError it catches.  None when the image is encoded.
EncodeFault(format_hint) ==
    IF _normalise_image_format(format_hint) \in WritableFormats THEN None
    ELSE Some([type |-> "KeyError"])

----------------------------------------------------------------------------
(* Bounds and the inputs the model draws from *)

\* The most files one request uploads.
MaxFiles == 3

REQUEST_ID == "req-1"

\* Settings.from_env as create_app stores it: the fields the handler and the
\* client read.  max_content_length counts bytes of the modelled bodies.
MakeSettings(api_key, force_mock, min_images, max_images) ==
    [ max_content_length |-> 4,
      allowed_mime_types |-> {"image/jpeg", "image/png", "image/jpg", "image/webp"},
      max_images_per_request |-> max_images,
      min_images_per_request |-> min_images,
      dashscope_api_key |-> api_key,
      dashscope_model |-> "qwen-vl-max",
      dashscope_endpoint |-> "https://dashscope.example/v1/chat/completions",
      dashscope_timeout |-> <<10, 120>>,
      dashscope_force_mock |-> force_mock ]

Credentials ==
    { <<None, FALSE>>, <<Some(""), FALSE>>, <<Some("sk-key"), FALSE>>,
      <<None, TRUE>>, <<Some("sk-key"), TRUE>> }

\* (min_images_per_request, max_images_per_request): the defaults and a
\* deployment that wants pairs of images.
CountBounds == { <<1, 2>>, <<2, 2>> }

SettingsChoices ==
    { MakeSettings(c[1], c[2], b[1], b[2]) : c \in Credentials, b \in CountBounds }

\* DashScopeClient.__init__: the fields copied from the settings; a missing
\* endpoint raises ConfigurationError and no application is built.
DashScopeClient(settings) ==
    IF settings.dashscope_endpoint = ""
    THEN Raise(ConfigurationError("DashScope endpoint is not configured."), <<>>)
    ELSE Return([ api_key |-> settings.dashscope_api_key,
                  endpoint |-> settings.dashscope_endpoint,
                  model |-> settings.dashscope_model,
                  timeout |-> settings.dashscope_timeout,
                  force_mock |-> settings.dashscope_force_mock ], <<>>)

\* Pixel statistics of three kinds of picture.
FlameArray ==
    [channels |-> 3, saturation_mean |-> 120, value_std |-> 60,
     unique_ratio |-> 50000, red_ratio |-> 90000, brightness |-> 80000]
ForestArray ==
    [channels |-> 3, saturation_mean |-> 90, value_std |-> 40,
     unique_ratio |-> 30000, red_ratio |-> 0, brightness |-> 40000]
ThermalArray ==
    [channels |-> 3, saturation_mean |-> 10, value_std |-> 60,
     unique_ratio |-> 50000, red_ratio |-> 20000, brightness |-> 60000]

Picture(format, array) ==
    Some([format |-> format, width |-> 800, height |-> 600, array |-> array])

Upload(filename, mimetype, stream) ==
    [filename |-> filename, mimetype |-> mimetype, stream |-> stream]

Uploads ==
    { Upload(Some("a.jpg"), "image/jpeg", Some([size |-> 2, image |-> Picture("JPEG", FlameArray)])),
      Upload(Some("my photo.png"), "IMAGE/PNG", Some([size |-> 3, image |-> Picture("PNG", ForestArray)])),
      Upload(None, "", Some([size |-> 2, image |-> Picture("PNG", ThermalArray)])),
      Upload(Some("th.webp"), "image/webp", Some([size |-> 4, image |-> Picture("WEBP", ThermalArray)])),
      Upload(Some("../"), "image/png", Some([size |-> 2, image |-> Picture("PNG", FlameArray)])),
      Upload(Some("t.gif"), "image/gif", Some([size |-> 2, image |-> Picture("GIF", FlameArray)])),
      Upload(Some("e.png"), "image/png", Some([size |-> 0, image |-> None])),
      Upload(Some("big.png"), "image/png", Some([size |-> 5, image |-> Picture("PNG", FlameArray)])),
      Upload(Some("bad.png"), "image/png", Some([size |-> 2, image |-> None])),
      Upload(Some("r.png"), "image/png", None),
      Upload(Some("layers.png"), "image/png", Some([size |-> 3, image |-> Picture("PSD", FlameArray)])) }

\* A reply body with the expected shape and the given message content.
ChatBody(content) ==
    JObj([choices |-> JList(<< JObj([message |-> JObj([content |-> content])]) >>)])

Response(status_code, text, json) ==
    [kind |-> "response", status_code |-> status_code, text |-> text, json |-> json]

\* What session.post does during a request of the handler.
Transports ==
    { [kind |-> "RequestException", error |-> "ReadTimeout"],
      [kind |-> "Exception", error |-> "RuntimeError"],
      Response(500, "upstream failure", None),
      Response(200, "<html>", None),
      Response(200, "[]", Some(JList(<<>>))),
      Response(200, "{..}", Some(ChatBody(JStr("Visible flame and heavy smoke. Confidence: 85%")))),
      Response(200, "{..}", Some(ChatBody(JStr("No fire detected in this scene")))) }

TempPaths == {"/tmp/fire-detect-1", "/tmp/fire-detect-2"}

----------------------------------------------------------------------------
(* State *)

VARIABLES
    app,                \* [settings, dashscope_client]: what create_app built
    pc,                 \* where the handler is
    files,              \* request.files.getlist("images")
    index,              \* the loop index of the handler (0 before the loop)
    prepared,           \* the PreparedImage of the current iteration, or None
    results,            \* the handler's results list
    annotated_images,   \* the handler's annotated_images list
    workspace,          \* the scratch directory held by the with block, or None
    temp_directories,   \* _TEMP_DIRECTORIES
    disk,               \* the scratch directories that exist
    pending,            \* the exception unwinding through the with block, or None
    response,           \* what the caller got: None, or Some(a return or a raise)
    trace,              \* history: the operations performed, in order
    input,              \* direct calls of the client's functions: the arguments
    output,             \* and the outcome (None until the call is made)
    threads,            \* concurrent requests: where each is in managed_temp_dir
    temp_lock,          \* _TEMP_LOCK: None, or Some(who holds it)
    atexit              \* _cleanup_temp_directories: its position and its list

\* The state of the concurrent view of managed_temp_dir; temp_directories and
\* disk are shared with the handler.
registryVars == << threads, temp_lock, atexit >>

vars == << app, pc, files, index, prepared, results, annotated_images, workspace,
           temp_directories, disk, pending, response, trace, input, output, registryVars >>

handlerVars == << app, pc, files, index, prepared, results, annotated_images, workspace,
                  temp_directories, disk, pending, response, trace >>

Event(op, i, context) == [op |-> op, index |-> i, context |-> context]

\* The events of one prepare_image call on file i.
RECURSIVE StageEvents(_, _)
StageEvents(stages, i) ==
    IF stages = <<>> THEN <<>>
    ELSE <<Event(Head(stages), i, None)>> \o StageEvents(Tail(stages), i)

HandlerIdle ==
    /\ pc = "idle"
    /\ files = <<>>
    /\ index = 0
    /\ prepared = None
    /\ results = <<>>
    /\ annotated_images = <<>>
    /\ workspace = None
    /\ temp_directories = {}
    /\ disk = {}
    /\ pending = None
    /\ response = None
    /\ trace = <<>>
    /\ threads = <<>>
    /\ temp_lock = None
    /\ atexit = [pc |-> "idle", directories |-> {}]

\* create_app: the settings are read once, the client is built from them.
Init ==
    /\ \E settings \in SettingsChoices :
          /\ DashScopeClient(settings).kind = "return"
          /\ app = [settings |-> settings,
                    dashscope_client |-> DashScopeClient(settings).value]
    /\ HandlerIdle
    /\ input = None
    /\ output = None

----------------------------------------------------------------------------
(* The request handler ai_enhanced_fire_detect (routes.py), step by step *)

\* A request arrives with its uploaded files: any list of up to MaxFiles uploads.
Receive ==
    /\ pc = "idle"
    /\ \E n \in 0..MaxFiles : \E fs \in [1..n -> Uploads] : files' = fs
    /\ pc' = "validate"
    /\ UNCHANGED << app, index, prepared, results, annotated_images, workspace,
                    temp_directories, disk, pending, response, trace, input, output, registryVars >>

\* CountError without its upper check.
CountErrorNoMax(fs, min_images, max_images) ==
    IF Len(fs) = 0
    THEN Some(ValidationError(
             "At least one image file must be uploaded under the 'images' field."))
    ELSE IF Len(fs) < min_images
    THEN Some(ValidationError("At least " \o NatStr(min_images) \o " image(s) must be provided."))
    ELSE None

\* The three count checks that open the handler: the error they raise, or None.
CountError(fs, min_images, max_images) ==
    IF Len(fs) = 0
    THEN Some(ValidationError(
             "At least one image file must be uploaded under the 'images' field."))
    ELSE IF Len(fs) < min_images
    THEN Some(ValidationError("At least " \o NatStr(min_images) \o " image(s) must be provided."))
    ELSE IF Len(fs) > max_images
    THEN Some(ValidationError(
             "At most " \o NatStr(max_images) \o " image(s) can be processed per request."))
    ELSE None

ValidateCount ==
    /\ pc = "validate"
    /\ LET err == CountError(files, app.settings.min_images_per_request,
                             app.settings.max_images_per_request)
       IN  IF err # None
           THEN /\ response' = Some(Raise(err[1], <<>>))
                /\ pc' = "done"
           ELSE /\ response' = response
                /\ pc' = "enter"
    /\ UNCHANGED << app, files, index, prepared, results, annotated_images, workspace,
                    temp_directories, disk, pending, trace, input, output, registryVars >>

\* managed_temp_dir, up to its yield: mkdtemp makes a directory that did not
\* exist, and the path is registered under the lock.
EnterTempDir ==
    /\ pc = "enter"
    /\ \E path \in TempPaths \ disk :
          /\ disk' = disk \cup {path}
          /\ temp_directories' = temp_directories \cup {path}
          /\ workspace' = Some(path)
    /\ trace' = Append(trace, Event("acquire", 0, None))
    /\ pc' = "loop"
    /\ UNCHANGED << app, files, index, prepared, results, annotated_images,
                    pending, response, input, output, registryVars >>

\* The head of the loop taken without waiting for the body of the iteration
\* before it: the next file is prepared while the last one is still to be
\* analysed and annotated.
PrepareImageEager ==
    /\ pc \in {"loop", "prepared"}
    /\ index < Len(files)
    /\ index' = index + 1
    /\ LET r == prepare_image(files[index + 1], app.settings.allowed_mime_types,
                              app.settings.max_content_length)
       IN  /\ trace' = trace \o StageEvents(r.events, index + 1)
           /\ IF r.kind = "raise"
              THEN /\ pending' = Some(r.error)
                   /\ prepared' = prepared
                   /\ pc' = "exit"
              ELSE /\ pending' = pending
                   /\ prepared' = Some(r.value)
                   /\ pc' = "prepared"
    /\ UNCHANGED << app, files, results, annotated_images, workspace,
                    temp_directories, disk, response, input, output, registryVars >>

\* The head of one loop iteration: prepare_image on the next file.
PrepareImage ==
    /\ pc = "loop"
    /\ index < Len(files)
    /\ index' = index + 1
    /\ LET r == prepare_image(files[index + 1], app.settings.allowed_mime_types,
                              app.settings.max_content_length)
       IN  /\ trace' = trace \o StageEvents(r.events, index + 1)
           /\ IF r.kind = "raise"
              THEN /\ pending' = Some(r.error)
                   /\ prepared' = prepared
                   /\ pc' = "exit"
              ELSE /\ pending' = pending
                   /\ prepared' = Some(r.value)
                   /\ pc' = "prepared"
    /\ UNCHANGED << app, files, results, annotated_images, workspace,
                    temp_directories, disk, response, input, output, registryVars >>

ThermalSummary == "Thermal image detected and skipped from DashScope analysis."

\* The entry the thermal branch appends to results.
ThermalResult(p) ==
    [ filename |-> p.filename, width |-> p.width, height |-> p.height,
      fire_detected |-> FALSE, confidence |-> None,
      analysis_summary |-> ThermalSummary,
      local_fire_probability |-> p.fire_probability,
      is_thermal |-> TRUE, source |-> "thermal-filter" ]

\* The entry appended to results after a DashScope analysis.
DashScopeResultEntry(p, analysis, model) ==
    [ filename |-> p.filename, width |-> p.width, height |-> p.height,
      fire_detected |-> analysis.fire_detected, confidence |-> analysis.confidence,
      analysis_summary |-> analysis.summary,
      local_fire_probability |-> p.fire_probability,
      is_thermal |-> FALSE, source |-> "dashscope",
      dashscope_model |-> model, raw_response |-> analysis.raw_response ]

AnnotatedEntry(p, summary, fire_detected, dir) ==
    [ filename |-> p.filename,
      image_base64 |-> save_annotated_image(
                           annotate_image(p.image, summary, fire_detected),
                           dir, Stem(p.filename), p.image_format) ]

\* SkipsAnalysis that sends every image to DashScope.
SkipsAnalysisNever(p) == FALSE

\* `if prepared.is_thermal:` the test that keeps an image from DashScope.
SkipsAnalysis(p) == p.is_thermal

\* The thermal branch behind a credential check made for every image: without
\* a credential the thermal image is not annotated and the request aborts.
ThermalSkipChecked ==
    /\ pc = "prepared"
    /\ SkipsAnalysis(prepared[1])
    /\ IF MissingCredential(app.dashscope_client)
       THEN /\ pending' = Some(ConfigurationError(
                                "DashScope API key is not configured. "
                                    \o "Set DASHSCOPE_API_KEY or enable mock mode."))
            /\ pc' = "exit"
            /\ trace' = trace
            /\ UNCHANGED << results, annotated_images >>
       ELSE /\ trace' = Append(trace, Event("annotate", index, None))
            /\ IF EncodeFault(prepared[1].image_format) # None
               THEN /\ pending' = EncodeFault(prepared[1].image_format)
                    /\ pc' = "exit"
                    /\ UNCHANGED << results, annotated_images >>
               ELSE /\ results' = Append(results, ThermalResult(prepared[1]))
                    /\ annotated_images' =
                           Append(annotated_images,
                                  AnnotatedEntry(prepared[1], ThermalSummary, FALSE,
                                                 workspace[1]))
                    /\ pc' = "loop"
                    /\ pending' = pending
    /\ UNCHANGED << app, files, index, prepared, workspace, temp_directories, disk,
                    response, input, output, registryVars >>

\* The branch `if prepared.is_thermal:` ... `continue`.
ThermalSkip ==
    /\ pc = "prepared"
    /\ SkipsAnalysis(prepared[1])
    /\ trace' = Append(trace, Event("annotate", index, None))
    /\ IF EncodeFault(prepared[1].image_format) # None
       THEN /\ pending' = EncodeFault(prepared[1].image_format)
            /\ pc' = "exit"
            /\ UNCHANGED << results, annotated_images >>
       ELSE /\ results' = Append(results, ThermalResult(prepared[1]))
            /\ annotated_images' =
                   Append(annotated_images,
                          AnnotatedEntry(prepared[1], ThermalSummary, FALSE, workspace[1]))
            /\ pc' = "loop"
            /\ pending' = pending
    /\ UNCHANGED << app, files, index, prepared, workspace, temp_directories, disk,
                    response, input, output, registryVars >>

\* The context the handler passes to analyze_image.
AnalysisContext(p) ==
    Some([filename |-> p.filename, local_probability |-> p.fire_probability])

\* The ExternalServiceError the handler raises `from exc`: cause is exc, the
\* exception it was made from (__cause__).
UnexpectedServiceError(filename, exc) ==
    [type |-> "ExternalServiceError",
     message |-> "Unexpected error while invoking DashScope service.",
     status_code |-> 502, error_code |-> "external_service_error",
     details |-> Some([filename |-> filename, error |-> exc.type]),
     cause |-> exc]

\* GuardedAnalysis that lets every exception through.
GuardedAnalysisPassThrough(p, r) == r

\* The try block around analyze_image: a ForestFireAPIError is re-raised as it
\* is, any other exception becomes an ExternalServiceError.
GuardedAnalysis(p, r) ==
    IF r.kind = "raise" /\ r.error.type \notin ForestFireAPIErrors
    THEN Raise(UnexpectedServiceError(p.filename, r.error), r.posts)
    ELSE r

\* The events of one analyze_image call on file i.
AnalysisEvents(i, context, r) ==
    <<Event("analyze", i, context)>>
        \o (IF r.posts # <<>> THEN <<Event("post", i, None)>> ELSE <<>>)

\* FinishAnalysis that notes a failed analysis and goes on with the next file.
FinishAnalysisContinue(p, context, r) ==
    IF r.kind = "raise"
    THEN /\ pending' = Some(r.error)
         /\ trace' = trace \o AnalysisEvents(index, context, r)
         /\ pc' = "loop"
         /\ UNCHANGED << results, annotated_images >>
    ELSE IF EncodeFault(p.image_format) # None
    THEN /\ pending' = EncodeFault(p.image_format)
         /\ trace' = trace \o AnalysisEvents(index, context, r)
                           \o <<Event("annotate", index, None)>>
         /\ pc' = "exit"
         /\ UNCHANGED << results, annotated_images >>
    ELSE /\ results' =
                Append(results,
                       DashScopeResultEntry(p, r.value, app.settings.dashscope_model))
         /\ annotated_images' =
                Append(annotated_images,
                       AnnotatedEntry(p, r.value.summary, r.value.fire_detected,
                                      workspace[1]))
         /\ trace' = trace \o AnalysisEvents(index, context, r)
                           \o <<Event("annotate", index, None)>>
         /\ pc' = "loop"
         /\ pending' = pending

\* FinishAnalysis that puts the new entries in front of the lists.
FinishAnalysisPrepend(p, context, r) ==
    IF r.kind = "raise"
    THEN /\ pending' = Some(r.error)
         /\ trace' = trace \o AnalysisEvents(index, context, r)
         /\ pc' = "exit"
         /\ UNCHANGED << results, annotated_images >>
    ELSE IF EncodeFault(p.image_format) # None
    THEN /\ pending' = EncodeFault(p.image_format)
         /\ trace' = trace \o AnalysisEvents(index, context, r)
                           \o <<Event("annotate", index, None)>>
         /\ pc' = "exit"
         /\ UNCHANGED << results, annotated_images >>
    ELSE /\ results' =
                <<DashScopeResultEntry(p, r.value, app.settings.dashscope_model)>>
                    \o results
         /\ annotated_images' =
                <<AnnotatedEntry(p, r.value.summary, r.value.fire_detected, workspace[1])>>
                    \o annotated_images
         /\ trace' = trace \o AnalysisEvents(index, context, r)
                           \o <<Event("annotate", index, None)>>
         /\ pc' = "loop"
         /\ pending' = pending

\* What follows the call: the exception unwinds, or the image is annotated and
\* its entries are appended (or the encoding of the annotated image fails and
\* that exception unwinds).
FinishAnalysis(p, context, r) ==
    IF r.kind = "raise"
    THEN /\ pending' = Some(r.error)
         /\ trace' = trace \o AnalysisEvents(index, context, r)
         /\ pc' = "exit"
         /\ UNCHANGED << results, annotated_images >>
    ELSE IF EncodeFault(p.image_format) # None
    THEN /\ pending' = EncodeFault(p.image_format)
         /\ trace' = trace \o AnalysisEvents(index, context, r)
                           \o <<Event("annotate", index, None)>>
         /\ pc' = "exit"
         /\ UNCHANGED << results, annotated_images >>
    ELSE /\ results' =
                Append(results,
                       DashScopeResultEntry(p, r.value, app.settings.dashscope_model))
         /\ annotated_images' =
                Append(annotated_images,
                       AnnotatedEntry(p, r.value.summary, r.value.fire_detected,
                                      workspace[1]))
         /\ trace' = trace \o AnalysisEvents(index, context, r)
                           \o <<Event("annotate", index, None)>>
         /\ pc' = "loop"
         /\ pending' = pending

\* The rest of the iteration for an image that is not thermal.
AnalyzeImage ==
    /\ pc = "prepared"
    /\ ~SkipsAnalysis(prepared[1])
    /\ \E transport \in Transports :
          FinishAnalysis(prepared[1], AnalysisContext(prepared[1]),
              GuardedAnalysis(prepared[1],
                  analyze_image(app.dashscope_client, prepared[1].image_format,
                                REQUEST_ID, AnalysisContext(prepared[1]), transport)))
    /\ UNCHANGED << app, files, index, prepared, workspace, temp_directories, disk,
                    response, input, output, registryVars >>

\* ExitTempDir without the finally: the directory is removed when the block is
\* left normally and kept when an exception leaves it.
ExitTempDirNoFinally ==
    /\ \/ pc = "exit"
       \/ pc = "loop" /\ index = Len(files)
    /\ disk' = IF pc = "exit" THEN disk ELSE disk \ {workspace[1]}
    /\ temp_directories' =
           IF pc = "exit" THEN temp_directories ELSE temp_directories \ {workspace[1]}
    /\ workspace' = None
    /\ trace' = Append(trace, Event("release", 0, None))
    /\ pc' = "respond"
    /\ UNCHANGED << app, files, index, prepared, results, annotated_images,
                    pending, response, input, output, registryVars >>

\* The finally of managed_temp_dir, reached when the loop has run out of files
\* or an exception unwinds: rmtree, then discard under the lock.
ExitTempDir ==
    /\ \/ pc = "exit"
       \/ pc = "loop" /\ index = Len(files)
    /\ disk' = disk \ {workspace[1]}
    /\ temp_directories' = temp_directories \ {workspace[1]}
    /\ workspace' = None
    /\ trace' = Append(trace, Event("release", 0, None))
    /\ pc' = "respond"
    /\ UNCHANGED << app, files, index, prepared, results, annotated_images,
                    pending, response, input, output, registryVars >>

\* HandlerOutcome that answers with the outcomes gathered before a failure.
HandlerOutcomePartial(exc, outcomes, annotated) ==
    IF exc # None /\ outcomes = <<>> THEN Raise(exc[1], <<>>)
    ELSE Return([ status |-> "success", request_id |-> REQUEST_ID,
                  results |-> outcomes, annotated_images |-> annotated ], <<>>)

\* What the caller of the handler gets once the with block is left: the
\* exception that unwound through it, or the JSON body with every outcome.
HandlerOutcome(exc, outcomes, annotated) ==
    IF exc # None THEN Raise(exc[1], <<>>)
    ELSE Return([ status |-> "success", request_id |-> REQUEST_ID,
                  results |-> outcomes, annotated_images |-> annotated ], <<>>)

\* The handler ends.
Respond ==
    /\ pc = "respond"
    /\ response' = Some(HandlerOutcome(pending, results, annotated_images))
    /\ pc' = "done"
    /\ UNCHANGED << app, files, index, prepared, results, annotated_images, workspace,
                    temp_directories, disk, pending, trace, input, output, registryVars >>

Next ==
    \/ Receive
    \/ ValidateCount
    \/ EnterTempDir
    \/ PrepareImage
    \/ ThermalSkip
    \/ AnalyzeImage
    \/ ExitTempDir
    \/ Respond

Spec == Init /\ [][Next]_vars

----------------------------------------------------------------------------
(* Direct calls of the client: analyze_image and _infer_fire_detection on   *)
(* arguments drawn from bounded sets.                                       *)

\* The most phrases a summary given to _infer_fire_detection is made of.
MaxPieces == 2

\* The phrases summaries are made of: every negative phrase, every affirmative
\* token, the negated tokens the negative list does not hold, and neutral
\* words (some of which form a phrase only together with a neighbour).
Pieces ==
    { "No fire", "no visible fire", "Absence of fire", "unlikely", "not detected",
      "no smoke", "no flames", "no sign of fire", "no obvious fire",
      "fire", "Flame", "smoke", "burn", "blaze", "ignition",
      "no flame", "no burn", "no blaze", "no ignition",
      "clear sky", "no", "not", "detected", "volcano" }

\* " ".join(pieces)
RECURSIVE JoinPieces(_)
JoinPieces(ps) ==
    IF ps = <<>> THEN ""
    ELSE IF Len(ps) = 1 THEN ps[1]
    ELSE ps[1] \o " " \o JoinPieces(Tail(ps))

Confidences == { None, Some(HALF - 1), Some(HALF) }

InferContexts ==
    { None,
      Some([filename |-> "a.jpg"]),
      Some([filename |-> "a.jpg", local_probability |-> HALF - 1]),
      Some([filename |-> "a.jpg", local_probability |-> HALF]) }

Clients ==
    { DashScopeClient(MakeSettings(c[1], c[2], 1, 2)).value :
          c \in Credentials \cup { <<Some(""), TRUE>> } }

ProbValues == { 0, 30000, HALF - 1, HALF, 70000, 80000, 80049, ONE }

AnalyzeContexts ==
    { None, Some(<<>>), Some([filename |-> "a.jpg"]) }
        \cup { Some([filename |-> "a.jpg", local_probability |-> p]) : p \in ProbValues }

TextBlock(text) == JObj([type |-> JStr("text"), text |-> text])

\* Bodies that parse as JSON: the expected shape with several contents, and
\* shapes that are not the expected one.
ReplyBodies ==
    { ChatBody(JStr("Visible flame and heavy smoke. Confidence: 85%")),
      ChatBody(JStr("No fire detected in this scene")),
      ChatBody(JStr("  Calm forest, probability=0.42\n")),
      ChatBody(JStr("Risk assessment pending")),
      ChatBody(JStr("")),
      ChatBody(JNull),
      ChatBody(JNum(7)),
      ChatBody(JList(<< TextBlock(JStr(" Smoke plume ")), JStr("skipped"),
                        TextBlock(JStr("likelihood: 0.9")) >>)),
      ChatBody(JList(<< JStr(" plain entry "), JNum(12) >>)),
      ChatBody(JList(<< TextBlock(JNull) >>)),
      JObj([choices |-> JList(<<>>)]),
      JObj([choices |-> JList(<< JObj([message |-> JNull]) >>)]),
      JObj([error |-> JStr("quota")]),
      JList(<<>>),
      JStr("ok") }

\* A response body longer than the excerpt kept of it (610 characters).
RECURSIVE Repeat(_, _)
Repeat(s, n) == IF n = 0 THEN "" ELSE s \o Repeat(s, n - 1)

LongBody == "upstream#" \o Repeat("0123456789", 60) \o "!"

StatusCodes == { 200, 302, 400, 503 }

ClientTransports ==
    { [kind |-> "RequestException", error |-> "ReadTimeout"],
      [kind |-> "Exception", error |-> "RuntimeError"] }
        \cup { Response(c, "<html>busy</html>", None) : c \in StatusCodes }
        \cup { Response(c, LongBody, None) : c \in StatusCodes }
        \cup { Response(c, "{..}", Some(b)) : c \in StatusCodes, b \in ReplyBodies }

\* Texts given to _extract_confidence: prefix, keyword, separator, number,
\* percent sign and suffix, concatenated.
TextPrefixes == { "", "Fire ", "Probability of fire. " }
TextKeywords == { "confidence", "probability", "Probability", "LIKELIHOOD", "certainty" }
TextSeparators == { ":", "=", ": ", " : ", " ", "-" }
TextNumbers == { "85", "0.42", "1", "150", "0", "1.5", "85.", ".5", "" }
TextPercents == { "", "%", " %" }
TextSuffixes == { "", " then probability=0.9" }

TextOf(parts) ==
    parts.prefix \o parts.keyword \o parts.separator \o parts.number
        \o parts.percent \o parts.suffix

\* The application is built as in Init; what is called is drawn here.
InitClient ==
    /\ app = [settings |-> MakeSettings(None, TRUE, 1, 2),
              dashscope_client |-> DashScopeClient(MakeSettings(None, TRUE, 1, 2)).value]
    /\ HandlerIdle
    /\ output = None
    /\ \/ \E self \in Clients, image_format \in {"png", ""},
             context \in AnalyzeContexts, transport \in ClientTransports :
               input = [fn |-> "analyze_image", self |-> self,
                        image_format |-> image_format, request_id |-> REQUEST_ID,
                        context |-> context, transport |-> transport]
       \/ \E n \in 0..MaxPieces : \E ps \in [1..n -> Pieces] :
             \E context \in InferContexts, confidence \in Confidences :
               input = [fn |-> "_infer_fire_detection", summary |-> JoinPieces(ps),
                        context |-> context, confidence |-> confidence]
       \/ \E prefix \in TextPrefixes, keyword \in TextKeywords,
             separator \in TextSeparators, number \in TextNumbers,
             percent \in TextPercents, suffix \in TextSuffixes :
               input = [fn |-> "_extract_confidence",
                        parts |-> [prefix |-> prefix, keyword |-> keyword,
                                   separator |-> separator, number |-> number,
                                   percent |-> percent, suffix |-> suffix]]

CallAnalyzeImage ==
    /\ output = None
    /\ input.fn = "analyze_image"
    /\ output' = Some(analyze_image(input.self, input.image_format, input.request_id,
                                    input.context, input.transport))
    /\ UNCHANGED << handlerVars, input, registryVars >>

CallInferFireDetection ==
    /\ output = None
    /\ input.fn = "_infer_fire_detection"
    /\ output' = Some(_infer_fire_detection(input.summary, input.context, input.confidence))
    /\ UNCHANGED << handlerVars, input, registryVars >>

CallExtractConfidence ==
    /\ output = None
    /\ input.fn = "_extract_confidence"
    /\ output' = Some(_extract_confidence(TextOf(input.parts)))
    /\ UNCHANGED << handlerVars, input, registryVars >>

NextClient ==
    \/ CallAnalyzeImage
    \/ CallInferFireDetection
    \/ CallExtractConfidence

SpecClient == InitClient /\ [][NextClient]_vars

----------------------------------------------------------------------------
(* Properties of the request handler (checked under Spec) *)

MinImages == app.settings.min_images_per_request
MaxImages == app.settings.max_images_per_request

\* The positions of the trace that hold operation op on file i.
EventsOf(op, i) == {k \in 1..Len(trace) : trace[k].op = op /\ trace[k].index = i}

\* The name prepare_image gives file f: the declared name, or the default when
\* none was declared, made safe.
SanitizedName(f) ==
    secure_filename(IF f.filename = None \/ f.filename[1] = "" THEN "image.jpg"
                    ELSE f.filename[1])

\* The pixel grid of file i (of a file that decoded).
PixelsOf(i) == files[i].stream[1].image[1].array

\* The handler is past the thermal/non-thermal branch of iteration i.
PastBranch(i) == i < index \/ (i = index /\ pc # "prepared")

\* C1: a request with no file, fewer files than the configured minimum or more
\* than the configured maximum is rejected with ValidationError, and when it is
\* nothing has been read, decoded or classified, no scratch directory has been
\* acquired and the vision-model client has not been called.
C1_CountRejectedBeforeWork ==
    (pc # "idle" /\ (Len(files) = 0 \/ Len(files) < MinImages \/ Len(files) > MaxImages))
        => /\ trace = <<>>
           /\ workspace = None /\ disk = {} /\ temp_directories = {}
           /\ index = 0 /\ prepared = None /\ results = <<>> /\ annotated_images = <<>>
           /\ pc \in {"validate", "done"}
           /\ (pc = "done" => /\ response # None
                              /\ response[1].kind = "raise"
                              /\ response[1].error.type = "ValidationError")

C1_Witness ==
    /\ pc = "done"
    /\ Len(files) > MaxImages
    /\ response[1].kind = "raise"
    /\ response[1].error.type = "ValidationError"
    /\ trace = <<>>

\* C2: the caller gets either one outcome and one annotated image per uploaded
\* file, or an error and no outcome: once an image has failed, the outcomes
\* computed for the images before it are not returned.
C2_AllOutcomesOrError ==
    response # None =>
        /\ (pending # None \/ Len(results) # Len(files)) => response[1].kind = "raise"
        /\ IF response[1].kind = "raise"
           THEN "value" \notin DOMAIN response[1]
           ELSE /\ response[1].kind = "return"
                /\ pending = None
                /\ Len(response[1].value.results) = Len(files)
                /\ Len(response[1].value.annotated_images) = Len(files)

C2_Witness ==
    /\ response # None
    /\ response[1].kind = "raise"
    /\ pending # None
    /\ Len(results) = 1
    /\ Len(files) = 2

\* C3 as stated: the filename of outcome i is the filename declared for input i.
C3_DeclaredFilenameReported ==
    (response # None /\ response[1].kind = "return") =>
        /\ Len(response[1].value.results) = Len(files)
        /\ \A i \in 1..Len(files) :
              Some(response[1].value.results[i].filename) = files[i].filename

\* C3 (amended): after a successful request the outcomes are in input order and
\* the filename of outcome i (and of annotated image i) is the sanitized form of
\* the filename declared for input i, "image.jpg" when none was declared; it is
\* the declared filename itself when sanitizing leaves that unchanged.
C3_SanitizedFilenameInOrder ==
    (response # None /\ response[1].kind = "return") =>
        /\ Len(response[1].value.results) = Len(files)
        /\ \A i \in 1..Len(files) :
              /\ response[1].value.results[i].filename = SanitizedName(files[i])
              /\ response[1].value.annotated_images[i].filename = SanitizedName(files[i])
              /\ (files[i].filename = Some("a.jpg")
                     => response[1].value.results[i].filename = "a.jpg")
              /\ (files[i].filename = Some("my photo.png")
                     => response[1].value.results[i].filename = "my_photo.png")
              /\ (files[i].filename = None
                     => response[1].value.results[i].filename = "image.jpg")

C3_Witness ==
    /\ response # None
    /\ response[1].kind = "return"
    /\ Len(files) = 2
    /\ files[1].filename = Some("a.jpg")
    /\ files[2].filename = Some("my photo.png")
    /\ response[1].value.results[1].filename = "a.jpg"
    /\ response[1].value.results[2].filename = "my_photo.png"

\* C4: an image classified thermal is never given to analyze_image (so nothing
\* is posted for it) and its outcome is the fixed skipped-analysis one; an image
\* classified not thermal is given to analyze_image exactly once, with the
\* context {filename, local_probability} of that image.
C4_ThermalNeverAnalysed ==
    \A i \in 1..Len(files) :
        EventsOf("classify", i) # {} =>
            IF detect_thermal(PixelsOf(i))
            THEN /\ EventsOf("analyze", i) = {}
                 /\ EventsOf("post", i) = {}
                 /\ (i <= Len(results) =>
                        /\ results[i].fire_detected = FALSE
                        /\ results[i].confidence = None
                        /\ results[i].analysis_summary =
                               "Thermal image detected and skipped from DashScope analysis."
                        /\ results[i].source = "thermal-filter"
                        /\ results[i].is_thermal)
            ELSE /\ Cardinality(EventsOf("analyze", i)) = (IF PastBranch(i) THEN 1 ELSE 0)
                 /\ Cardinality(EventsOf("post", i)) <= 1
                 /\ \A k \in EventsOf("analyze", i) :
                        trace[k].context =
                            Some([filename |-> SanitizedName(files[i]),
                                  local_probability |->
                                      estimate_fire_probability(PixelsOf(i))])
                 /\ (i <= Len(results) => results[i].source = "dashscope")

C4_Witness ==
    /\ pc = "done"
    /\ response[1].kind = "return"
    /\ Len(files) = 2
    /\ detect_thermal(PixelsOf(1))
    /\ ~detect_thermal(PixelsOf(2))
    /\ EventsOf("analyze", 1) = {}
    /\ EventsOf("post", 2) # {}

\* The positions of the trace that hold operation op, on whichever file.
AllEvents(history, op) == {k \in 1..Len(history) : history[k].op = op}

\* In every state: at most one post per image, each for an image that is not
\* thermal and after the one analyze_image call made for it.
OnePostPerImage ==
    \A i \in 1..Len(files) :
        /\ Cardinality(EventsOf("post", i)) <= 1
        /\ EventsOf("post", i) # {}
              => /\ ~detect_thermal(PixelsOf(i))
                 /\ Cardinality(EventsOf("analyze", i)) = 1
                 /\ \A k \in EventsOf("post", i) : k - 1 \in EventsOf("analyze", i)

\* In every step: one post more at most, and none once an error is unwinding.
NoPostAfterFailure ==
    /\ Cardinality(AllEvents(trace', "post")) <= Cardinality(AllEvents(trace, "post")) + 1
    /\ pending # None
          => Cardinality(AllEvents(trace', "post")) = Cardinality(AllEvents(trace, "post"))

\* C14: the handler and the client never issue the post again: every image
\* that is not thermal is posted once at most, and once an image has failed
\* (a transport failure or timeout among the causes) no post follows, for
\* that image or for a later one.
C14_NoRetry == []OnePostPerImage /\ [][NoPostAfterFailure]_vars

C14_Witness ==
    /\ pc = "done"
    /\ Len(files) = 2
    /\ index = 1
    /\ pending # None
    /\ pending[1].type = "ExternalServiceError"
    /\ pending[1].message = "Failed to connect to DashScope service."
    /\ Cardinality(AllEvents(trace, "post")) = 1
    /\ files[2].filename = Some("a.jpg")

\* The request ended with an error.
Raised == response # None /\ response[1].kind = "raise"

\* The error the caller got was made by the handler out of another exception.
MadeFromAnother == "cause" \in DOMAIN response[1].error

C16_ScratchReleased ==
    /\ workspace # None => (workspace[1] \in disk /\ workspace[1] \in temp_directories)
    /\ workspace = None => (disk = {} /\ temp_directories = {})
    /\ response # None
          => /\ workspace = None
             /\ disk = {}
             /\ temp_directories = {}
             /\ Cardinality(AllEvents(trace, "release"))
                    = Cardinality(AllEvents(trace, "acquire"))

C16_Witness ==
    /\ Raised
    /\ response[1].error = [type |-> "KeyError"]
    /\ AllEvents(trace, "acquire") # {}
    /\ AllEvents(trace, "release") # {}
    /\ disk = {}
    /\ temp_directories = {}

\* The steps taken on images, in the order of one image's chain.
ImageSteps == <<"read", "decode", "classify", "analyze", "post", "annotate">>

StepRank(op) == CHOOSE n \in 1..Len(ImageSteps) : ImageSteps[n] = op

\* The positions of a history that hold a step on an image.
StepsOn(history) == {k \in 1..Len(history) : history[k].index > 0}

\* In every state: the steps recorded so far are grouped by image, the images
\* in input order and none skipped, and within one image each step is taken
\* once at most and in the order of the chain.
StepsInInputOrder ==
    /\ \A k, l \in StepsOn(trace) :
           k < l => \/ trace[k].index < trace[l].index
                    \/ /\ trace[k].index = trace[l].index
                       /\ StepRank(trace[k].op) < StepRank(trace[l].op)
    /\ 1..(index - 1) \subseteq {trace[k].index : k \in StepsOn(trace)}
    /\ {trace[k].index : k \in StepsOn(trace)} \subseteq 1..index
    /\ index <= Len(files)

\* In every step: the first step of an image is taken only when every image
\* before it has its outcome and its annotated image, and once an image has
\* raised no step is taken on any image.
ChainCompleteBeforeNext ==
    LET before == {trace[k].index : k \in StepsOn(trace)}
        after == {trace'[k].index : k \in StepsOn(trace')}
    IN  /\ \A j \in after \ before :
               /\ pending = None
               /\ Len(results) = j - 1
               /\ Len(annotated_images) = j - 1
               /\ \A i \in 1..(j - 1) : EventsOf("annotate", i) # {}
        /\ pending # None => StepsOn(trace') = StepsOn(trace)

\* C19: within one request the images are processed one after the other in
\* input order: the intake, classification, optional vision-model call and
\* annotation of image i are all complete before any step of image i+1
\* starts, and no step of a later image starts after an image has raised.
C19_StrictlySequential == []StepsInInputOrder /\ [][ChainCompleteBeforeNext]_vars

\* Two images went through their whole chains, the first with a call of the
\* vision model, and the request was answered.
C19_Witness ==
    /\ pc = "done"
    /\ Len(files) = 2
    /\ response # None /\ response[1].kind = "return"
    /\ EventsOf("post", 1) # {}
    /\ EventsOf("annotate", 2) # {}
    /\ Len(results) = 2

\* The application was built with no credential and mock mode is not forced.
Unconfigured ==
    /\ app.settings.dashscope_api_key \in {None, Some("")}
    /\ ~app.settings.dashscope_force_mock

AbortedForConfiguration == pending # None /\ pending[1].type = "ConfigurationError"

\* File i was decoded and classified as thermal.
ClassifiedThermal(i) == EventsOf("classify", i) # {} /\ detect_thermal(PixelsOf(i))

\* File i went through the whole thermal branch: classified, annotated, and
\* its outcome is the thermal-filter one at position i.
ThermalProcessed(i) ==
    /\ ClassifiedThermal(i)
    /\ EventsOf("annotate", i) # {}
    /\ EventsOf("analyze", i) = {}
    /\ Len(results) >= i /\ Len(annotated_images) >= i
    /\ results[i].source = "thermal-filter" /\ results[i].is_thermal

\* C22: with no credential and mock mode not forced, ConfigurationError is
\* raised only when the first image that is not thermal is reached: the
\* thermal images before it are fully processed (classified and annotated)
\* before the request aborts with ConfigurationError and no outcome, and a
\* request whose images are all thermal gets one thermal-filter outcome per
\* image.
C22_ConfigurationErrorAtFirstNonThermal ==
    Unconfigured =>
        /\ AllEvents(trace, "post") = {}
        /\ \A i \in 1..Len(files) :
               EventsOf("analyze", i) # {} => AbortedForConfiguration /\ index = i
        /\ AbortedForConfiguration =>
               /\ EventsOf("classify", index) # {}
               /\ ~detect_thermal(PixelsOf(index))
               /\ EventsOf("analyze", index) # {}
               /\ EventsOf("annotate", index) = {}
               /\ Len(results) = index - 1
               /\ \A i \in 1..(index - 1) : ThermalProcessed(i)
               /\ response # None =>
                      /\ response[1].kind = "raise"
                      /\ response[1].error.type = "ConfigurationError"
                      /\ "value" \notin DOMAIN response[1]
        /\ (response # None /\ response[1].kind = "return") =>
               /\ Len(response[1].value.results) = Len(files)
               /\ \A i \in 1..Len(files) : ThermalProcessed(i)
        /\ (response # None /\ pending = None /\ Len(files) > 0
                /\ \A i \in 1..Len(files) : ClassifiedThermal(i)) =>
               response[1].kind = "return"

\* A thermal image was processed, the image after it was not thermal, and the
\* request was answered with ConfigurationError.
C22_Witness ==
    /\ Unconfigured
    /\ pc = "done"
    /\ Len(files) = 2
    /\ index = 2
    /\ ThermalProcessed(1)
    /\ AbortedForConfiguration
    /\ response # None /\ response[1].kind = "raise"

\* Every image of the request was thermal and the request succeeded.
C22_WitnessAllThermal ==
    /\ Unconfigured
    /\ pc = "done"
    /\ Len(files) = 2
    /\ response # None /\ response[1].kind = "return"
    /\ \A i \in 1..2 : ThermalProcessed(i)

----------------------------------------------------------------------------
(* Properties of the DashScope client (checked under SpecClient) *)

\* The call fn has been made and has answered.
Called(fn) == output # None /\ input.fn = fn

\* No credential is configured for the client of the call.
NoCredential == input.self.api_key \in {None, Some("")}

\* The context of the call carries a local probability.
KnowsLocal(context) ==
    /\ context # None
    /\ "local_probability" \in DOMAIN context[1]

\* The local probability of the call, 0 when the context has none.
LocalOf(context) == IF KnowsLocal(context) THEN context[1].local_probability ELSE 0

\* The result is a mock verdict.
IsMockVerdict(result) ==
    /\ "mock" \in DOMAIN result.raw_response
    /\ result.raw_response.mock = TRUE

\* C5: with no API key configured and mock mode not forced, analyze_image
\* raises ConfigurationError, posts nothing and returns no verdict.
C5_NoCredentialRaises ==
    (Called("analyze_image") /\ NoCredential /\ ~input.self.force_mock)
        => /\ output[1].kind = "raise"
           /\ output[1].error.type = "ConfigurationError"
           /\ output[1].posts = <<>>
           /\ "value" \notin DOMAIN output[1]

C5_Witness ==
    /\ Called("analyze_image")
    /\ input.self.api_key = None
    /\ ~input.self.force_mock
    /\ input.transport.kind = "response"
    /\ input.transport.status_code = 200
    /\ output[1].kind = "raise"
    /\ output[1].error.type = "ConfigurationError"

\* C6 as stated: with no API key, or with mock mode forced, analyze_image
\* returns the mock verdict and posts nothing.
C6_MockWithoutCredentialOrForced ==
    (Called("analyze_image") /\ (NoCredential \/ input.self.force_mock))
        => /\ output[1].kind = "return"
           /\ IsMockVerdict(output[1].value)
           /\ output[1].posts = <<>>

\* C6 (amended): analyze_image returns the mock verdict, posting nothing,
\* exactly when mock mode is forced, with or without an API key; a missing key
\* does not activate mock mode: without a key and without the flag the call
\* raises ConfigurationError, and with a key and without the flag it posts.
C6_MockOnlyWhenForced ==
    Called("analyze_image") =>
        /\ input.self.force_mock
              => /\ output[1].kind = "return"
                 /\ IsMockVerdict(output[1].value)
                 /\ output[1].value.raw_response.local_probability = LocalOf(input.context)
                 /\ output[1].posts = <<>>
        /\ ~input.self.force_mock
              => /\ (output[1].kind = "return" => ~IsMockVerdict(output[1].value))
                 /\ (NoCredential
                        => /\ output[1].kind = "raise"
                           /\ output[1].error.type = "ConfigurationError"
                           /\ output[1].posts = <<>>)
                 /\ (~NoCredential => Len(output[1].posts) = 1)

C6_Witness ==
    /\ Called("analyze_image")
    /\ input.self.force_mock
    /\ input.self.api_key = Some("sk-key")
    /\ input.transport.kind = "RequestException"
    /\ output[1].kind = "return"
    /\ IsMockVerdict(output[1].value)
    /\ output[1].posts = <<>>

\* The percentage, with one decimal, of the local probabilities drawn.
PercentOf(p) ==
    CASE p = 0 -> "0.0%" [] p = 30000 -> "30.0%" [] p = HALF - 1 -> "50.0%"
      [] p = HALF -> "50.0%" [] p = 70000 -> "70.0%" [] p = 80000 -> "80.0%"
      [] p = 80049 -> "80.0%" [] p = ONE -> "100.0%"

\* The mock verdict has the fields the local probability p determines.
MockVerdictFor(result, p) ==
    /\ result.fire_detected = (p >= HALF)
    /\ result.confidence = (IF p >= HALF THEN Some(p) ELSE None)
    /\ Contains(result.summary, " " \o PercentOf(p) \o " ")
    /\ IsMockVerdict(result)
    /\ result.raw_response.local_probability = p
    /\ result = _mock_response(Some([local_probability |-> p]))

\* C7: in mock mode the verdict is determined by the local probability p alone:
\* fire_detected = (p >= 0.5), confidence = p when fire is detected and none
\* otherwise, the summary holds p as a percentage with one decimal, the raw
\* response is flagged mock and echoes p, and the result equals that of any
\* other mock call with the same p.
C7_MockVerdictFromLocalProbability ==
    (Called("analyze_image") /\ input.self.force_mock)
        => /\ output[1].kind = "return"
           /\ MockVerdictFor(output[1].value, LocalOf(input.context))
           /\ (LocalOf(input.context) = 80000
                  => /\ output[1].value.fire_detected
                     /\ output[1].value.confidence = Some(80000)
                     /\ Contains(output[1].value.summary, "80.0%"))

C7_Witness ==
    /\ Called("analyze_image")
    /\ input.self.force_mock
    /\ input.context = Some([filename |-> "a.jpg", local_probability |-> HALF])
    /\ output[1].kind = "return"
    /\ output[1].value.fire_detected
    /\ output[1].value.confidence = Some(HALF)

NegativePhrases ==
    { "no fire", "no visible fire", "absence of fire", "unlikely", "not detected",
      "no smoke", "no flames", "no sign of fire", "no obvious fire" }

AffirmativeTokens == { "fire", "flame", "smoke", "burn", "blaze", "ignition" }

SaysNegative(summary) == \E ph \in NegativePhrases : Contains(lower(summary), ph)
SaysAffirmative(summary) == \E tok \in AffirmativeTokens : Contains(lower(summary), tok)
SaysNoToken(summary) ==
    \E tok \in AffirmativeTokens : Contains(lower(summary), "no " \o tok)

\* C8: a non-empty summary whose lowercased text holds a negative phrase gives
\* fire_detected = false, whatever affirmative tokens it also holds and
\* whatever the confidence and the local probability are.
C8_NegativePhraseWins ==
    (Called("_infer_fire_detection") /\ input.summary # "" /\ SaysNegative(input.summary))
        => output[1] = FALSE

C8_Witness ==
    /\ Called("_infer_fire_detection")
    /\ input.summary = "no obvious fire Flame"
    /\ input.confidence = Some(HALF)
    /\ KnowsLocal(input.context)
    /\ LocalOf(input.context) = HALF
    /\ output[1] = FALSE

\* The verdict the precedence gives a call whose summary has no negative phrase.
ByPrecedence(summary, context, confidence) ==
    IF SaysAffirmative(summary) THEN ~SaysNoToken(summary)
    ELSE IF confidence # None THEN confidence[1] >= HALF
    ELSE IF KnowsLocal(context) THEN LocalOf(context) >= HALF
    ELSE FALSE

\* C9: for a non-empty summary with no negative phrase, an affirmative token
\* gives true unless "no <token>" occurs for some token, then false, whatever
\* the numbers are; without a token a known confidence decides alone
\* (confidence >= 0.5); without either the local probability decides when
\* known (>= 0.5); otherwise the verdict is false.
C9_Precedence ==
    (Called("_infer_fire_detection") /\ input.summary # "" /\ ~SaysNegative(input.summary))
        => output[1] = ByPrecedence(input.summary, input.context, input.confidence)

C9_Witness ==
    /\ Called("_infer_fire_detection")
    /\ input.summary = "clear sky"
    /\ input.confidence = Some(HALF - 1)
    /\ KnowsLocal(input.context)
    /\ LocalOf(input.context) = HALF
    /\ output[1] = FALSE

\* The call reached the parsing of a reply and extracted an empty summary.
ExtractedEmpty ==
    /\ Called("analyze_image")
    /\ output[1].kind = "return"
    /\ output[1].posts # <<>>
    /\ _extract_summary(input.transport.json[1]) = ""

NumberRead(number) ==
    CASE number = "85" -> 85 * ONE [] number = "0.42" -> 42000 [] number = "1" -> ONE
      [] number = "150" -> 150 * ONE [] number = "0" -> 0 [] number = "1.5" -> 150000
      [] number = "85." -> 85 * ONE

Clamp01(v) == IF v < 0 THEN 0 ELSE IF v > ONE THEN ONE ELSE v

\* The first keyword of the text is followed by ':' or '=' and a number.
FirstOccurrenceMatches(parts) ==
    /\ parts.keyword \in { "confidence", "probability", "Probability", "LIKELIHOOD" }
    /\ parts.separator \in { ":", "=", ": ", " : " }
    /\ parts.number \in { "85", "0.42", "1", "150", "0", "1.5", "85." }

\* The matched literal ends in '%': the sign directly follows the number.
LiteralEndsInPercent(parts) == parts.percent = "%" /\ parts.number # "85."

ConfidenceExpected(parts) ==
    IF FirstOccurrenceMatches(parts)
    THEN IF LiteralEndsInPercent(parts) /\ NumberRead(parts.number) > ONE
         THEN Some(Clamp01(NumberRead(parts.number) \div 100))
         ELSE Some(Clamp01(NumberRead(parts.number)))
    ELSE IF parts.suffix = " then probability=0.9" THEN Some(90000)
    ELSE None

\* C11: _extract_confidence returns none when no keyword (confidence,
\* probability, likelihood, in any case) is followed by ':' or '=' and a
\* number; otherwise it reads the number v of the first such occurrence and
\* returns clamp(v/100, 0, 1) when the matched literal ends in '%' and v > 1,
\* clamp(v, 0, 1) otherwise; the result is none or lies in [0, 1].
C11_ExtractConfidence ==
    Called("_extract_confidence") =>
        /\ output[1] = ConfidenceExpected(input.parts)
        /\ (output[1] # None => output[1][1] >= 0 /\ output[1][1] <= ONE)
        /\ (TextOf(input.parts) = "Fire confidence: 85%" => output[1] = Some(85000))
        /\ (TextOf(input.parts) = "probability=0.42" => output[1] = Some(42000))

C11_Witness ==
    /\ Called("_extract_confidence")
    /\ TextOf(input.parts) = "Fire confidence: 85% then probability=0.9"
    /\ output[1] = Some(85000)

\* A call of analyze_image that is not answered by the credential guard or by
\* the mock: the client has a key and mock mode is not forced.
CalledLive == Called("analyze_image") /\ ~NoCredential /\ ~input.self.force_mock

\* The outcome is an ExternalServiceError naming the request, and no verdict.
RaisedExternalServiceError ==
    /\ output[1].kind = "raise"
    /\ "value" \notin DOMAIN output[1]
    /\ output[1].error.type = "ExternalServiceError"
    /\ output[1].error.details # None
    /\ "request_id" \in DOMAIN output[1].error.details[1]
    /\ output[1].error.details[1].request_id = input.request_id

\* The error holds the first characters of the body received, 600 at most.
CarriesBodyExcerpt ==
    /\ "body" \in DOMAIN output[1].error.details[1]
    /\ Len(output[1].error.details[1].body) <= 600
    /\ Len(output[1].error.details[1].body) = Min(600, Len(input.transport.text))
    /\ output[1].error.details[1].body
           = SubSeq(input.transport.text, 1, Len(output[1].error.details[1].body))

\* C12 as stated: a post that raises, or a response whose status is not 2xx,
\* makes analyze_image raise ExternalServiceError with the request id (and a
\* body excerpt of at most 600 characters when a response was received).
C12_ErrorWhenPostRaisesOrNot2xx ==
    (CalledLive /\ (input.transport.kind # "response"
                       \/ input.transport.status_code < 200
                       \/ input.transport.status_code > 299))
        => /\ RaisedExternalServiceError
           /\ (input.transport.kind = "response" => CarriesBodyExcerpt)

\* C12 (amended): in non-mock mode analyze_image raises ExternalServiceError,
\* with the request id in its details and no verdict, when the post raises a
\* requests.RequestException (a timeout is one) or the response status is 400
\* or more, the details then holding the first 600 characters of the body at
\* most; a response with a status below 400 (a 3xx as well) is read as a
\* success, and an exception of another kind raised by the post leaves
\* analyze_image as it is.
C12_ErrorWhenRequestFailsOrStatus400 ==
    CalledLive =>
        /\ Len(output[1].posts) = 1
        /\ input.transport.kind = "RequestException"
              => /\ RaisedExternalServiceError
                 /\ "body" \notin DOMAIN output[1].error.details[1]
        /\ (input.transport.kind = "response" /\ input.transport.status_code >= 400)
              => /\ RaisedExternalServiceError
                 /\ CarriesBodyExcerpt
        /\ (input.transport.kind = "response" /\ input.transport.status_code < 400
               /\ input.transport.json # None)
              => output[1].kind = "return"
        /\ input.transport.kind = "Exception"
              => /\ output[1].kind = "raise"
                 /\ output[1].error = [type |-> input.transport.error]

C12_Witness ==
    /\ CalledLive
    /\ input.transport.kind = "response"
    /\ input.transport.status_code = 503
    /\ Len(input.transport.text) > 600
    /\ RaisedExternalServiceError
    /\ Len(output[1].error.details[1].body) = 600

\* The body has the shape {choices: [{message: {content}}]} with a content
\* that is not empty.
HasContent(message) ==
    /\ message.t = "dict"
    /\ "content" \in DOMAIN message.fields
    /\ Truthy(message.fields.content)

HasMessage(choice) ==
    /\ choice.t = "dict"
    /\ "message" \in DOMAIN choice.fields
    /\ HasContent(choice.fields.message)

HasExpectedStructure(body) ==
    /\ body.t = "dict"
    /\ "choices" \in DOMAIN body.fields
    /\ body.fields.choices.t = "list"
    /\ body.fields.choices.items # <<>>
    /\ HasMessage(body.fields.choices.items[1])

\* A response with a successful status answered the call.
AnsweredOk ==
    /\ CalledLive
    /\ input.transport.kind = "response"
    /\ input.transport.status_code >= 200
    /\ input.transport.status_code <= 299

\* C13 as stated: a successful response whose body is not JSON, or is JSON
\* without the expected structure, makes analyze_image raise
\* ExternalServiceError; no verdict is returned for it.
C13_UnparseableBodyRaises ==
    (AnsweredOk /\ (input.transport.json = None
                       \/ ~HasExpectedStructure(input.transport.json[1])))
        => RaisedExternalServiceError

\* C13 (amended): a successful response whose body is not JSON makes
\* analyze_image raise ExternalServiceError (request id and body excerpt in the
\* details); a JSON body that is not an object, or an object whose choices or
\* content are missing or empty, raises nothing: its summary is read as empty
\* and the call returns a verdict with the placeholder summary, no confidence,
\* fire_detected = (local probability >= 0.5) when one is known and false
\* otherwise, and the body as raw response.
C13_OnlyNonJsonBodyRaises ==
    AnsweredOk =>
        /\ input.transport.json = None
              => /\ RaisedExternalServiceError
                 /\ CarriesBodyExcerpt
        /\ (input.transport.json # None /\ ~HasExpectedStructure(input.transport.json[1]))
              => /\ output[1].kind = "return"
                 /\ output[1].value.summary
                        = "DashScope analysis completed without textual summary."
                 /\ output[1].value.confidence = None
                 /\ output[1].value.fire_detected
                        = (KnowsLocal(input.context) /\ LocalOf(input.context) >= HALF)
                 /\ output[1].value.raw_response = input.transport.json[1]

C13_Witness ==
    /\ AnsweredOk
    /\ input.transport.json = Some(JObj([error |-> JStr("quota")]))
    /\ LocalOf(input.context) = 80000
    /\ output[1].kind = "return"
    /\ output[1].value.fire_detected
    /\ output[1].value.summary = "DashScope analysis completed without textual summary."

----------------------------------------------------------------------------
(* Direct calls of the intake functions *)

\* What a FileStorage given to prepare_image declares and holds: every
\* combination of a name, a MIME type and a stream.
DeclaredNames == { None, Some(""), Some("a.jpg"), Some("my photo.png"),
                   Some("../"), Some(".."), Some("../../etc/passwd") }
DeclaredTypes == { "", "image/png", "IMAGE/PNG", "Image/Jpeg", "image/gif", "text/plain" }
Streams ==
    { None,
      Some([size |-> 0, image |-> None]),
      Some([size |-> 2, image |-> None]),
      Some([size |-> 2, image |-> Picture("PNG", FlameArray)]),
      Some([size |-> 4, image |-> Picture("", ForestArray)]),
      Some([size |-> 5, image |-> None]),
      Some([size |-> 5, image |-> Picture("PNG", FlameArray)]) }

\* The stride sampling of detect_thermal and estimate_fire_probability.
\* limit is the side above which the array is sampled.
THERMAL_SAMPLE_LIMIT == 512
FIRE_SAMPLE_LIMIT == 640

\* max(array.shape[0] // limit, array.shape[1] // limit, 1) taking the smaller
\* of the two quotients.
sampling_factor_min(height, width, limit) ==
    Max(Min(height \div limit, width \div limit), 1)

\* max(array.shape[0] // limit, array.shape[1] // limit, 1)
sampling_factor(height, width, limit) ==
    Max(Max(height \div limit, width \div limit), 1)

\* len(range(0, n, step)): what a[::step] keeps of an axis of length n.
StrideLen(n, step) == (n + step - 1) \div step

\* The shape of the array the statistics are computed on, and the factor it
\* was sampled by (1 when the array is used as it is).
StrideSample(shape, limit) ==
    IF shape.height > limit \/ shape.width > limit
    THEN LET factor == sampling_factor(shape.height, shape.width, limit)
         IN  [factor |-> factor,
              height |-> StrideLen(shape.height, factor),
              width |-> StrideLen(shape.width, factor)]
    ELSE [factor |-> 1, height |-> shape.height, width |-> shape.width]

\* Sides of arrays: around each multiple of the limit up to MaxScale times it.
MaxScale == 3

Sides(limit) ==
    { s \in { k * limit + d : k \in 0..MaxScale, d \in {-1, 0, 1, limit \div 2} } : s > 0 }

InitIntake ==
    /\ app = [settings |-> MakeSettings(None, TRUE, 1, 2),
              dashscope_client |-> DashScopeClient(MakeSettings(None, TRUE, 1, 2)).value]
    /\ HandlerIdle
    /\ output = None
    /\ \/ \E filename \in DeclaredNames, mimetype \in DeclaredTypes, stream \in Streams :
             input = [fn |-> "prepare_image",
                      file_storage |-> Upload(filename, mimetype, stream)]
       \/ \E limit \in {THERMAL_SAMPLE_LIMIT, FIRE_SAMPLE_LIMIT} :
             \E height \in Sides(limit), width \in Sides(limit) :
               input = [fn |-> "stride_sample", limit |-> limit,
                        shape |-> [height |-> height, width |-> width]]

\* The first pass: the classifier samples the array it is given.
CallStrideSample ==
    /\ output = None
    /\ input.fn = "stride_sample"
    /\ output' = Some([first |-> StrideSample(input.shape, input.limit), second |-> None])
    /\ UNCHANGED << handlerVars, input, registryVars >>

\* A second pass: the classifier is given the array the first pass kept.
CallStrideSampleAgain ==
    /\ output # None
    /\ input.fn = "stride_sample"
    /\ output[1].second = None
    /\ output' = Some([output[1] EXCEPT !.second =
                          Some(StrideSample([height |-> output[1].first.height,
                                             width |-> output[1].first.width],
                                            input.limit))])
    /\ UNCHANGED << handlerVars, input, registryVars >>

CallPrepareImage ==
    /\ output = None
    /\ input.fn = "prepare_image"
    /\ output' = Some(prepare_image(input.file_storage,
                                    app.settings.allowed_mime_types,
                                    app.settings.max_content_length))
    /\ UNCHANGED << handlerVars, input, registryVars >>

NextIntake ==
    \/ CallPrepareImage
    \/ CallStrideSample
    \/ CallStrideSampleAgain

SpecIntake == InitIntake /\ [][NextIntake]_vars

----------------------------------------------------------------------------
(* Properties of the intake functions (checked under SpecIntake) *)

PreparedBy(fn) == input.fn = fn /\ output # None

\* The declared names of DeclaredNames that count as supplied and of which
\* sanitization leaves nothing, and the names the others are reported under.
NameSupplied(f) == f.filename # None /\ f.filename[1] # ""
SanitizesToNothing(f) == NameSupplied(f) /\ f.filename[1] \in {"../", ".."}
NameAfterSanitizing(f) ==
    IF ~NameSupplied(f) THEN "image.jpg"
    ELSE IF f.filename[1] = "my photo.png" THEN "my_photo.png"
    ELSE IF f.filename[1] = "../../etc/passwd" THEN "etc_passwd"
    ELSE f.filename[1]

\* The declared types that match the allow-list when case is ignored.
TypeSupplied(f) == f.mimetype # ""
TypeAllowedIgnoringCase(f) == f.mimetype \in {"image/png", "IMAGE/PNG", "Image/Jpeg"}

ReadFails(f) == f.stream = None
BufferEmpty(f) == f.stream # None /\ f.stream[1].size = 0
BufferOversized(f) == f.stream # None /\ f.stream[1].size > app.settings.max_content_length
Undecodable(f) == f.stream # None /\ f.stream[1].image = None

RaisedIntake(type, fragment) ==
    /\ output[1].kind = "raise"
    /\ output[1].error.type = type
    /\ Contains(output[1].error.message, fragment)

\* The checks in their order, up to the size check: the first that fails
\* decides the error, whatever the later ones would have said.
ChecksBeforeDecodeInOrder(f) ==
    IF SanitizesToNothing(f) THEN RaisedIntake("ValidationError", "valid filename")
    ELSE IF TypeSupplied(f) /\ ~TypeAllowedIgnoringCase(f)
    THEN RaisedIntake("ValidationError", "Unsupported file type")
    ELSE IF ReadFails(f) THEN TRUE
    ELSE IF BufferEmpty(f) THEN RaisedIntake("ValidationError", "is empty")
    ELSE IF BufferOversized(f) THEN RaisedIntake("ValidationError", "exceeds the maximum")
    ELSE IF Undecodable(f) THEN RaisedIntake("ImageProcessingError", "Unable to decode")
    ELSE /\ output[1].kind = "return"
         /\ output[1].value.filename = NameAfterSanitizing(f)

PassedEarlierChecks(f) ==
    /\ ~SanitizesToNothing(f)
    /\ TypeSupplied(f) => TypeAllowedIgnoringCase(f)
    /\ ~ReadFails(f) /\ ~BufferEmpty(f) /\ ~BufferOversized(f)

RaisedImageProcessingError ==
    output[1].kind = "raise" /\ output[1].error.type = "ImageProcessingError"

\* C17 as stated: prepare_image applies its checks in the order filename,
\* MIME, read, empty, size, decode and the first failing check decides the
\* error; ImageProcessingError is raised only for a non-empty, within-size
\* buffer that passed the earlier checks and cannot be decoded.
C17_ImageProcessingErrorOnlyUndecodable ==
    PreparedBy("prepare_image") =>
        /\ ChecksBeforeDecodeInOrder(input.file_storage)
        /\ RaisedImageProcessingError =>
               PassedEarlierChecks(input.file_storage) /\ Undecodable(input.file_storage)

\* C17, amended: the checks are applied in the order filename, MIME, read,
\* empty, size, decode and the first failing check decides the error; a read
\* that raises gives ImageProcessingError, so ImageProcessingError is raised
\* for a stream that passed the filename and MIME checks and could not be
\* read, or for a non-empty, within-size buffer that passed the earlier checks
\* and cannot be decoded, and for nothing else.
C17_ChecksInOrder ==
    PreparedBy("prepare_image") =>
        LET f == input.file_storage
        IN  /\ ChecksBeforeDecodeInOrder(f)
            /\ (~SanitizesToNothing(f) /\ (TypeSupplied(f) => TypeAllowedIgnoringCase(f))
                    /\ ReadFails(f))
                 => RaisedIntake("ImageProcessingError", "Failed to read")
            /\ RaisedImageProcessingError =>
                 \/ /\ ~SanitizesToNothing(f)
                    /\ TypeSupplied(f) => TypeAllowedIgnoringCase(f)
                    /\ ReadFails(f)
                 \/ PassedEarlierChecks(f) /\ Undecodable(f)

\* An upload failing the MIME, the size and the decode checks at once was
\* rejected for its type.
C17_Witness ==
    /\ PreparedBy("prepare_image")
    /\ ~SanitizesToNothing(input.file_storage)
    /\ TypeSupplied(input.file_storage) /\ ~TypeAllowedIgnoringCase(input.file_storage)
    /\ BufferOversized(input.file_storage) /\ Undecodable(input.file_storage)
    /\ RaisedIntake("ValidationError", "Unsupported file type")

FloorOf(n, limit) == CHOOSE q \in 0..n : q * limit <= n /\ n < (q + 1) * limit

Largest(S) == CHOOSE m \in S : \A x \in S : x <= m

\* The rows (or columns) a stride keeps of an axis of length n.
KeptIndexes(n, step) == { i \in 0..(n - 1) : i % step = 0 }

SampledOnce == input.fn = "stride_sample" /\ output # None
SampledTwice == SampledOnce /\ output[1].second # None

\* C20: the array is stride-sampled only when height or width exceeds the
\* limit (640 for estimate_fire_probability, 512 for detect_thermal), by the
\* single factor max(floor(height/limit), floor(width/limit), 1) on both
\* axes, and the sampling is idempotent: applied to the already-sampled
\* dimensions the rule yields factor 1, so a second pass keeps the grid.
C20_SamplingIdempotent ==
    /\ SampledOnce =>
         LET h == input.shape.height
             w == input.shape.width
             first == output[1].first
             expected == IF h > input.limit \/ w > input.limit
                         THEN Largest({FloorOf(h, input.limit), FloorOf(w, input.limit), 1})
                         ELSE 1
         IN  /\ first.factor = expected
             /\ first.height = Cardinality(KeptIndexes(h, expected))
             /\ first.width = Cardinality(KeptIndexes(w, expected))
    /\ SampledTwice =>
         /\ output[1].second[1].factor = 1
         /\ output[1].second[1].height = output[1].first.height
         /\ output[1].second[1].width = output[1].first.width

\* An array sampled by a factor above 1 whose sampled side still exceeds the
\* limit went through a second pass.
C20_Witness ==
    /\ SampledTwice
    /\ output[1].first.factor > 1
    /\ output[1].first.height > input.limit
    /\ output[1].first.width < input.shape.width

----------------------------------------------------------------------------
(* Settings.from_env (checked under SpecConfig) *)

\* os.getenv(name, default): env holds None for a variable that is not set.
getenv(env, name, default) == IF env[name] = None THEN default ELSE env[name][1]

\* int(s) for the values enumerated below: a string of digits is its number,
\* any other string makes int raise ValueError.
IsDigits(s) == s # "" /\ \A i \in 1..Len(s) : IsDigit(CharAt(s, i))

\* allowed_mime_env.split(",")
RECURSIVE SplitComma(_)
SplitComma(s) ==
    IF ~Contains(s, ",") THEN << s >>
    ELSE LET i == CHOOSE k \in 1..Len(s) :
                      CharAt(s, k) = "," /\ \A j \in 1..(k - 1) : CharAt(s, j) # ","
         IN  << SubSeq(s, 1, i - 1) >> \o SplitComma(SubSeq(s, i + 1, Len(s)))

\* The allow-list read from the environment (config.py 41-51).
AllowedMimeFromEnv(env) ==
    LET allowed_mime_env == getenv(env, "ALLOWED_MIME_TYPES", "")
        items == SplitComma(allowed_mime_env)
    IN  IF allowed_mime_env # ""
        THEN { lower(strip(items[i])) : i \in { k \in 1..Len(items) : strip(items[k]) # "" } }
        ELSE {"image/jpeg", "image/png", "image/jpg", "image/webp"}

\* data.update(overrides), one key: an entry of overrides replaces the value
\* read from the environment.
Updated(overrides, key, value) ==
    IF overrides[key] # None THEN overrides[key][1] ELSE value

\* Settings.from_env(overrides).  env gives the environment variables read
\* here (the others are not set), overrides the entries of the mapping (None
\* for a key it does not hold).  The result is the Settings (the fields of
\* MakeSettings), or the ValueError of an int() that could not parse.
from_env(env, overrides) ==
    LET allowed_mime_types == AllowedMimeFromEnv(env)
        max_content_length == getenv(env, "MAX_CONTENT_LENGTH", "10485760")
        max_images == getenv(env, "MAX_IMAGES_PER_REQUEST", "2")
        allowed_mime == Updated(overrides, "allowed_mime_types",
                                [t |-> "set", items |-> allowed_mime_types])
    IN  IF ~IsDigits(max_content_length) \/ ~IsDigits(max_images)
        THEN [kind |-> "raise", error |-> [type |-> "ValueError"]]
        ELSE [kind |-> "return",
              value |->
                [ max_content_length |->
                      Updated(overrides, "max_content_length", ParseNat(max_content_length)),
                  allowed_mime_types |->
                      IF allowed_mime.t = "set"
                      THEN { lower(m) : m \in allowed_mime.items }
                      ELSE allowed_mime_types,
                  max_images_per_request |->
                      Updated(overrides, "max_images_per_request", ParseNat(max_images)),
                  min_images_per_request |-> 1,
                  dashscope_api_key |->
                      Updated(overrides, "dashscope_api_key", env["DASHSCOPE_API_KEY"]),
                  dashscope_model |-> "qwen-vl-max",
                  dashscope_endpoint |->
                      "https://dashscope.aliyuncs.com/compatible-mode/v1/chat/completions",
                  dashscope_timeout |-> <<10, 120>>,
                  dashscope_force_mock |->
                      Updated(overrides, "dashscope_force_mock",
                              lower(getenv(env, "DASHSCOPE_FORCE_MOCK", "false"))
                                  \in {"1", "true", "yes"}) ]]

\* The environments and the CONFIG mappings from_env is called with.
Environments ==
    [ MAX_CONTENT_LENGTH : {None, Some("4"), Some("8"), Some("4MB")},
      MAX_IMAGES_PER_REQUEST : {None, Some("3")},
      DASHSCOPE_API_KEY : {None, Some("sk-env")},
      DASHSCOPE_FORCE_MOCK : {None, Some("YES"), Some("0")},
      ALLOWED_MIME_TYPES : {None, Some(""), Some("image/png, IMAGE/GIF,")} ]

ConfigOverrides ==
    [ max_content_length : {None, Some(16)},
      max_images_per_request : {None, Some(5)},
      dashscope_api_key : {None, Some(Some("sk-config"))},
      dashscope_force_mock : {None, Some(FALSE), Some(TRUE)},
      allowed_mime_types : {None, Some([t |-> "set", items |-> {"Image/BMP"}]),
                            Some([t |-> "str", items |-> {}])} ]

InitConfig ==
    /\ app = [settings |-> MakeSettings(None, TRUE, 1, 2),
              dashscope_client |-> DashScopeClient(MakeSettings(None, TRUE, 1, 2)).value]
    /\ HandlerIdle
    /\ output = None
    /\ \E env \in Environments, overrides \in ConfigOverrides :
           input = [fn |-> "from_env", env |-> env, overrides |-> overrides]

CallFromEnv ==
    /\ output = None
    /\ input.fn = "from_env"
    /\ output' = Some(from_env(input.env, input.overrides))
    /\ UNCHANGED << handlerVars, input, registryVars >>

NextConfig ==
    \/ CallFromEnv

SpecConfig == InitConfig /\ [][NextConfig]_vars

\* What the environment values above say, read as the setting's type.
EnvSays(name, text) ==
    CASE name = "MAX_CONTENT_LENGTH" -> IF text = "4" THEN 4 ELSE 8
      [] name = "MAX_IMAGES_PER_REQUEST" -> 3
      [] name = "DASHSCOPE_API_KEY" -> Some(text)
      [] name = "DASHSCOPE_FORCE_MOCK" -> (text = "YES")
      [] name = "ALLOWED_MIME_TYPES" -> {"image/png", "image/gif"}

GivenByBoth(name, key) ==
    /\ input.env[name] # None /\ input.env[name][1] # ""
    /\ input.overrides[key] # None

EnvironmentWins(name, key) ==
    GivenByBoth(name, key) => output[1].value[key] = EnvSays(name, input.env[name][1])

\* C18: in Settings.from_env environment variables take precedence over the
\* CONFIG overrides: a setting given both by an environment variable and by
\* an entry of the overrides mapping holds the environment variable's value.
C18_EnvironmentTakesPrecedence ==
    (input.fn = "from_env" /\ output # None /\ output[1].kind = "return") =>
        /\ EnvironmentWins("MAX_CONTENT_LENGTH", "max_content_length")
        /\ EnvironmentWins("MAX_IMAGES_PER_REQUEST", "max_images_per_request")
        /\ EnvironmentWins("DASHSCOPE_API_KEY", "dashscope_api_key")
        /\ EnvironmentWins("DASHSCOPE_FORCE_MOCK", "dashscope_force_mock")
        /\ EnvironmentWins("ALLOWED_MIME_TYPES", "allowed_mime_types")

----------------------------------------------------------------------------
(* managed_temp_dir under concurrent requests (checked under SpecRegistry) *)

\* The most requests in flight at once.
MaxRequests == 2

\* The names mkdtemp can give: any name that is not on the disk.
ScratchNames == { "/tmp/fire-detect-" \o NatStr(n) : n \in 1..MaxRequests }

\* Up to MaxRequests requests, each about to enter `with managed_temp_dir()`;
\* the handler itself is not running in this view.
InitRegistry ==
    /\ app = [settings |-> MakeSettings(None, TRUE, 1, 2),
              dashscope_client |-> DashScopeClient(MakeSettings(None, TRUE, 1, 2)).value]
    /\ pc = "idle" /\ files = <<>> /\ index = 0 /\ prepared = None
    /\ results = <<>> /\ annotated_images = <<>> /\ workspace = None
    /\ pending = None /\ response = None /\ trace = <<>>
    /\ input = None /\ output = None
    /\ temp_directories = {}
    /\ disk = {}
    /\ \E n \in 1..MaxRequests :
           threads = [t \in 1..n |-> [pc |-> "start", path |-> None]]
    /\ temp_lock = None
    /\ atexit = [pc |-> "idle", directories |-> {}]

notRegistryVars ==
    << app, pc, files, index, prepared, results, annotated_images, workspace,
       pending, response, trace, input, output >>

\* path = Path(tempfile.mkdtemp(prefix=prefix)): a directory is created under
\* a name that did not exist.
Mkdtemp(t) ==
    /\ threads[t].pc = "start"
    /\ \E path \in ScratchNames \ disk :
           /\ disk' = disk \cup {path}
           /\ threads' = [threads EXCEPT ![t] = [pc |-> "created", path |-> Some(path)]]
    /\ UNCHANGED << notRegistryVars, temp_directories, temp_lock, atexit >>

\* with _TEMP_LOCK: (entering, before the add)
LockToAdd(t) ==
    /\ threads[t].pc = "created"
    /\ temp_lock = None
    /\ temp_lock' = Some(t)
    /\ threads' = [threads EXCEPT ![t].pc = "adding"]
    /\ UNCHANGED << notRegistryVars, temp_directories, disk, atexit >>

\* _TEMP_DIRECTORIES.add(path), and the lock is released.
Add(t) ==
    /\ threads[t].pc = "adding"
    /\ temp_directories' = temp_directories \cup {threads[t].path[1]}
    /\ temp_lock' = None
    /\ threads' = [threads EXCEPT ![t].pc = "yielded"]
    /\ UNCHANGED << notRegistryVars, disk, atexit >>

\* yield path: the body of the with block runs and ends, by return or by raise.
Body(t) ==
    /\ threads[t].pc = "yielded"
    /\ threads' = [threads EXCEPT ![t].pc = "finally"]
    /\ UNCHANGED << notRegistryVars, temp_directories, disk, temp_lock, atexit >>

\* shutil.rmtree(path, ignore_errors=True)
Rmtree(t) ==
    /\ threads[t].pc = "finally"
    /\ disk' = disk \ {threads[t].path[1]}
    /\ threads' = [threads EXCEPT ![t].pc = "removed"]
    /\ UNCHANGED << notRegistryVars, temp_directories, temp_lock, atexit >>

\* with _TEMP_LOCK: (entering, before the discard)
LockToDiscard(t) ==
    /\ threads[t].pc = "removed"
    /\ temp_lock = None
    /\ temp_lock' = Some(t)
    /\ threads' = [threads EXCEPT ![t].pc = "discarding"]
    /\ UNCHANGED << notRegistryVars, temp_directories, disk, atexit >>

\* _TEMP_DIRECTORIES.discard(path), and the lock is released.
Discard(t) ==
    /\ threads[t].pc = "discarding"
    /\ temp_directories' = temp_directories \ {threads[t].path[1]}
    /\ temp_lock' = None
    /\ threads' = [threads EXCEPT ![t].pc = "done"]
    /\ UNCHANGED << notRegistryVars, disk, atexit >>

\* _cleanup_temp_directories, run by atexit: with _TEMP_LOCK (entering).
CleanupLock ==
    /\ atexit.pc = "idle"
    /\ temp_lock = None
    /\ temp_lock' = Some("atexit")
    /\ atexit' = [atexit EXCEPT !.pc = "locked"]
    /\ UNCHANGED << notRegistryVars, temp_directories, disk, threads >>

\* directories = list(_TEMP_DIRECTORIES); _TEMP_DIRECTORIES.clear(), and the
\* lock is released.
CleanupClear ==
    /\ atexit.pc = "locked"
    /\ atexit' = [pc |-> "removing", directories |-> temp_directories]
    /\ temp_directories' = {}
    /\ temp_lock' = None
    /\ UNCHANGED << notRegistryVars, disk, threads >>

\* for directory in directories: shutil.rmtree(directory, ignore_errors=True)
CleanupRmtree ==
    /\ atexit.pc = "removing"
    /\ IF atexit.directories = {}
       THEN /\ atexit' = [atexit EXCEPT !.pc = "done"]
            /\ disk' = disk
       ELSE \E directory \in atexit.directories :
                /\ disk' = disk \ {directory}
                /\ atexit' = [atexit EXCEPT !.directories = @ \ {directory}]
    /\ UNCHANGED << notRegistryVars, temp_directories, temp_lock, threads >>

NextRegistry ==
    \/ \E t \in DOMAIN threads : Mkdtemp(t)
    \/ \E t \in DOMAIN threads : LockToAdd(t)
    \/ \E t \in DOMAIN threads : Add(t)
    \/ \E t \in DOMAIN threads : Body(t)
    \/ \E t \in DOMAIN threads : Rmtree(t)
    \/ \E t \in DOMAIN threads : LockToDiscard(t)
    \/ \E t \in DOMAIN threads : Discard(t)
    \/ CleanupLock
    \/ CleanupClear
    \/ CleanupRmtree

SpecRegistry == InitRegistry /\ [][NextRegistry]_vars

\* Request t is between acquisition and release: its add is done and its
\* discard is not.
BetweenAcquisitionAndRelease(t) ==
    threads[t].pc \in {"yielded", "finally", "removed", "discarding"}

InFlight == { t \in DOMAIN threads : BetweenAcquisitionAndRelease(t) }

\* C21: under any interleaving of concurrent requests (while the process is
\* serving, that is before the exit handler has run) the registry holds
\* exactly the scratch directories of the requests between acquisition and
\* release: no request's entry is lost to another request, no directory is
\* registered for two requests, and the registry is empty when no request is
\* in flight.
C21_RegistryExact ==
    atexit.pc = "idle" =>
        /\ temp_directories = { threads[t].path[1] : t \in InFlight }
        /\ \A t, u \in InFlight : t # u => threads[t].path # threads[u].path
        /\ InFlight = {} => temp_directories = {}

=============================================================================
